---- MODULE Spec2Model ----
(***************************************************************************)
(* A model of binary-rts' test-selection commands (commands/select.py),    *)
(* of its diff-file backed VCS client (vcs/diff_file.py) and of the        *)
(* helpers of commands/utils.py.                                           *)
(*                                                                         *)
(* Two state machines share the module.  SelectSpec runs the `cpp` and     *)
(* `syscalls` commands step by step (loading the tables, the selection     *)
(* runs, the result files and the event log).  Spec drives a               *)
(* DiffFileClient: get_diff and get_file_content_at_revision on a diff     *)
(* text and an on-disk file tree drawn from bounded sets; ApplySpec drives *)
(* the same client on files on disk and the diffs of edits of them.        *)
(*                                                                         *)
(* Text is modelled at the level the code works on it: a string is a       *)
(* sequence of one-character strings, "\n" included, so that splitlines,   *)
(* "\n".join, startswith, slicing and the regular expressions are          *)
(* computed and not assumed.                                               *)
(***************************************************************************)
EXTENDS Integers, Sequences, FiniteSets, TLC

(***************************************************************************)
(* Bounds of the model.                                                    *)
(***************************************************************************)
\* Largest number of steps of an edit of a file whose diff is applied.
MaxScript == 4
\* Largest number of steps of the edit behind a section the calls are
\* dispatched on.
MaxDispatch == 2

VARIABLES
    \* ---- commands/select.py ------------------------------------------
    cmd,          \* the command invoked: "cpp", "syscalls" or "none"
    opts,         \* the command-line options that matter to the run
    analysis,     \* what select_tests computes for the change under test
    pc,           \* position of the command
    cfg_idx,      \* index of the configuration `_run_rts` is running
    selection,    \* (included_tests, excluded_tests, selection_causes)
    files,        \* output directory -> file name -> file content
    event_log,    \* output directory -> events appended to event.log
    failed_at,    \* output directory -> step of the try body that raised
    run_order,    \* directories `_run_rts` was called for, in call order
    \* ---- vcs/diff_file.py --------------------------------------------
    repo_state,   \* DiffFileClient.repo_state
    diff_content, \* DiffFileClient._diff_content
    disk,         \* path -> the file under root, for the paths that exist
    _changelist,  \* DiffFileClient._changelist: <<>> for None, else <<items>>
    _file_diffs,  \* DiffFileClient._file_diffs
    call,         \* the last get_file_content_at_revision call: its arguments, the
                  \* item it found, whether its get_diff found the changelist cached
    trace,        \* the iterations of the hunk loop of that call
    disk_read,    \* whether the last call read the file from disk
    result,       \* what the last call returned
    parses,       \* how many times the loop of get_diff has run
    raised,       \* whether an exception left the last call
    \* ---- commands/select.py, the callback -----------------------------
    params,       \* the options of `select` and whether repo_root is a git directory
    vcs_client,   \* the class of the client the callback created, or "none"
    ctx_obj,      \* ctx.obj: <<>> until set, else <<SelectCommonOptions>>
    callback_exit,\* "none" before the callback, then "returned" or "BadParameter"
    output_made,  \* whether the callback has created the output directory
    \* ---- commands/utils.py -------------------------------------------
    input_file,   \* the text of the file `filter` reads
    framework,    \* --framework
    stdout,       \* what `filter` printed: <<>> nothing yet, else <<text>>
    exclude_files,\* --exclude: the texts of the excluded.txt files given to `merge`
    include_files,\* --include: the texts of the included.txt files given to `merge`
    excluded_txt  \* output/excluded.txt of `merge`: <<>> not written, else <<text>>

selectVars == <<cmd, opts, analysis, pc, cfg_idx, selection, files, event_log,
                failed_at, run_order>>
clientVars == <<repo_state, diff_content, disk, _changelist, _file_diffs,
                call, trace, disk_read, result, parses, raised>>
callbackVars == <<params, vcs_client, ctx_obj, callback_exit, output_made>>
filterVars == <<input_file, framework, stdout>>
mergeVars == <<exclude_files, include_files, excluded_txt>>
vars == <<selectVars, clientVars, callbackVars, filterVars, mergeVars>>

(***************************************************************************)
(*                        commands/select.py                               *)
(***************************************************************************)
INCLUDED_TESTS_FILE == "included.txt"
EXCLUDED_TESTS_FILE == "excluded.txt"
SELECTION_CAUSES_FILE == "selection-causes.txt"
RTS_START_EVENT == "START_BINARY_RTS_SELECTION"
RTS_END_EVENT == "END_BINARY_RTS_SELECTION"

ResultFiles == {INCLUDED_TESTS_FILE, EXCLUDED_TESTS_FILE, SELECTION_CAUSES_FILE}

\* SelectionCause.SELECTION_FAILURE.value (binaryrts/rts/base.py).
SELECTION_FAILURE == "SELECTION_FAILURE"

\* A file of an output directory: absent, or present with its text.
Absent == [exists |-> FALSE, text |-> ""]
Written(text) == [exists |-> TRUE, text |-> text]
NoFiles == [f \in ResultFiles |-> Absent]

\* `sep`.join(strs), on the strings of the result files.
RECURSIVE JoinStr(_, _)
JoinStr(strs, sep) ==
    IF Len(strs) = 0 THEN ""
    ELSE IF Len(strs) = 1 THEN strs[1]
    ELSE strs[1] \o sep \o JoinStr(Tail(strs), sep)

\* Test identifiers of the traces, with the name the simple output gives.
Tests == {"mod!!!SuiteA!!!Case1", "*!!!TestX!!!*"}
SimpleName(t) == IF t = "*!!!TestX!!!*" THEN "TestX" ELSE t

\* format_test_list(tests, simple): one identifier per line; the simple
\* form strips the *!!!...!!!* markers and ends every line with a newline.
format_test_list(tests, simple) ==
    IF simple
    THEN JoinStr([i \in 1..Len(tests) |-> SimpleName(tests[i]) \o "\n"], "")
    ELSE JoinStr(tests, "\n")

\* json.dump of a selection-causes mapping, given as <<key, causes>> pairs.
JsonList(strs) ==
    "[" \o JoinStr([i \in 1..Len(strs) |-> "\"" \o strs[i] \o "\""], ", ") \o "]"
json_dump(causes) ==
    "{" \o JoinStr([i \in 1..Len(causes) |->
                      "\"" \o causes[i][1] \o "\": " \o JsonList(causes[i][2])],
                   ", ") \o "}"
\* What json.dump has written when it raises part-way through the mapping.
PartialJson == "{"

\* The results select_tests can return: (included, excluded, causes).
NoSelection == [included |-> <<>>, excluded |-> <<>>, causes |-> <<>>]
SelectionResults ==
    { [included |-> <<"mod!!!SuiteA!!!Case1">>,
       excluded |-> <<"*!!!TestX!!!*">>,
       causes   |-> << <<"mod!!!SuiteA!!!Case1", <<"AFFECTED_FILE">> >> >>],
      [included |-> <<>>,
       excluded |-> <<"mod!!!SuiteA!!!Case1", "*!!!TestX!!!*">>,
       causes   |-> <<>>] }

\* The retest-all fallback written by the except blocks.
FallbackIncluded == "*\n"
FallbackExcluded == ""
FallbackCauses == json_dump(<< <<"*", <<SELECTION_FAILURE>> >> >>)
FallbackFiles ==
    [f \in ResultFiles |->
        IF f = INCLUDED_TESTS_FILE THEN Written(FallbackIncluded)
        ELSE IF f = EXCLUDED_TESTS_FILE THEN Written(FallbackExcluded)
        ELSE Written(FallbackCauses)]

\* binaryrts.util.fs.has_ext: the file's extension is one of `exts`.
has_ext(ext, exts) == ext \in exts
FileExts == {".csv", ".pkl", ".txt"}

\* RTSConfiguration, and the list `cpp` runs in evaluation mode.
RTSConfiguration(name, file_level, scope, overload, virtual, nonfunc, retest_all) ==
    [name |-> name, file_level |-> file_level, scope_analysis |-> scope,
     overload_analysis |-> overload, virtual_analysis |-> virtual,
     non_functional_analysis |-> nonfunc, non_functional_retest_all |-> retest_all]
EvaluationConfigs(java) ==
    LET p == IF java THEN "java" ELSE "cpp" IN
    << RTSConfiguration(p \o "-func", FALSE, FALSE, FALSE, FALSE, FALSE, FALSE),
       RTSConfiguration(p \o "-func-macro", FALSE, FALSE, FALSE, FALSE, TRUE, FALSE),
       RTSConfiguration(p \o "-func-macro-retest-all", FALSE, FALSE, FALSE, FALSE, FALSE, TRUE),
       RTSConfiguration(p \o "-func-scope", FALSE, TRUE, FALSE, FALSE, FALSE, FALSE),
       RTSConfiguration(p \o "-func-overload", FALSE, FALSE, TRUE, FALSE, FALSE, FALSE),
       RTSConfiguration(p \o "-func-virtual", FALSE, FALSE, FALSE, TRUE, FALSE, FALSE),
       RTSConfiguration(p \o "-func-all", FALSE, TRUE, TRUE, TRUE, TRUE, FALSE),
       RTSConfiguration(p \o "-file", TRUE, FALSE, FALSE, FALSE, FALSE, FALSE) >>
\* Without --evaluation the one configuration is built from the options.
DefaultConfigs(o) ==
    << RTSConfiguration("", o.file_level, FALSE, FALSE, FALSE, FALSE, FALSE) >>
Configs == IF opts.evaluation THEN EvaluationConfigs(opts.java) ELSE DefaultConfigs(opts)

\* output_dir = opts.output / config.name, as the name below opts.output.
OutputDirs ==
    {""} \cup {EvaluationConfigs(j)[i].name :
                j \in BOOLEAN, i \in DOMAIN EvaluationConfigs(TRUE)}
EventName(event, name) == event \o "_" \o (IF name = "" THEN "default" ELSE name)

\* The value of the DiffFileClient variables while a command runs (the
\* commands hand the client to the algorithm and never touch it).
EmptyDict == [k \in {} |-> <<>>]
NoCall == [made |-> FALSE, revision |-> <<>>, filepath |-> <<>>, item |-> <<>>,
           cached |-> FALSE]
NoResult == [returned |-> FALSE, text |-> <<>>]
\* The callback has not run
NoParams == [dirty |-> FALSE, diff_file |-> <<>>, repo_state |-> "old",
             from_revision |-> <<>>, to_revision |-> <<>>, is_git_repo |-> FALSE]
CallbackIdle ==
    /\ params = NoParams
    /\ vcs_client = "none"
    /\ ctx_obj = <<>>
    /\ callback_exit = "none"
    /\ output_made = FALSE
\* `utils filter` is not running
FilterIdle ==
    /\ input_file = <<>>
    /\ framework = "gtest"
    /\ stdout = <<>>
\* `utils merge` is not running
MergeIdle ==
    /\ exclude_files = <<>>
    /\ include_files = <<>>
    /\ excluded_txt = <<>>
ClientIdle ==
    /\ repo_state = "old"
    /\ diff_content = <<>>
    /\ disk = EmptyDict
    /\ _changelist = <<>>
    /\ _file_diffs = EmptyDict
    /\ call = NoCall
    /\ trace = <<>>
    /\ disk_read = FALSE
    /\ result = NoResult
    /\ parses = 0
    /\ raised = FALSE

\* The state when `cpp` or `syscalls` is entered: the select callback has
\* built ctx.obj and created the output directory.
SelectInit ==
    /\ cmd \in {"cpp", "syscalls"}
    /\ opts \in [evaluation : BOOLEAN, java : BOOLEAN, file_level : BOOLEAN,
                 simple_output : BOOLEAN,
                 lookup_ext : FileExts, traces_ext : FileExts]
    \* options the command does not have, or does not read, stay at their default
    /\ cmd = "syscalls" =>
          /\ ~opts.evaluation /\ ~opts.java /\ ~opts.file_level
          /\ opts.lookup_ext = ".csv"
    /\ ~opts.evaluation => ~opts.java
    /\ opts.evaluation => ~opts.file_level
    /\ analysis \in SelectionResults
    /\ pc = IF cmd = "cpp" THEN "cpp_load" ELSE "sys_start"
    /\ cfg_idx = 1
    /\ selection = NoSelection
    /\ files = [d \in OutputDirs |-> NoFiles]
    /\ event_log = [d \in OutputDirs |-> <<>>]
    /\ failed_at = "none"
    /\ run_order = <<>>
    /\ ClientIdle
    /\ CallbackIdle
    /\ FilterIdle
    /\ MergeIdle

\* An exception leaves the command: nothing more runs.
Propagate == pc' = "raised"

\* A table file is loaded by from_csv when it is a .csv and by from_pickle
\* when it is a .pkl; the else branch raises (lines 312-322, 326-338, 525-532).
SupportedFormatAny(ext) == TRUE
SupportedFormat(ext) == has_ext(ext, {".csv"}) \/ has_ext(ext, {".pkl"})

\* cpp, lines 310-338: load the lookup table and the traces.  An extension
\* other than .csv and .pkl raises; so may from_csv and from_pickle.
cpp_load ==
    /\ pc = "cpp_load"
    /\ \E load_fails \in BOOLEAN :
          IF \/ ~SupportedFormat(opts.lookup_ext)
             \/ ~SupportedFormat(opts.traces_ext)
             \/ load_fails
          THEN Propagate
          ELSE pc' = "cpp_loop"
    /\ UNCHANGED <<cmd, opts, analysis, cfg_idx, selection, files, event_log, failed_at,
                   run_order, clientVars, callbackVars, filterVars, mergeVars>>

\* cpp, lines 411-502: the loop over the configurations; _run_rts, lines
\* 342-347: create the output directory and append the START event.
_run_rts_start ==
    /\ pc = "cpp_loop"
    /\ cfg_idx <= Len(Configs)
    /\ LET name == Configs[cfg_idx].name IN
          /\ event_log' = [event_log EXCEPT
                 ![name] = Append(@, EventName(RTS_START_EVENT, name))]
          /\ run_order' = Append(run_order, name)
    /\ failed_at' = "none"
    /\ selection' = NoSelection
    /\ pc' = "rts_build"
    /\ UNCHANGED <<cmd, opts, analysis, cfg_idx, files, clientVars, callbackVars, filterVars, mergeVars>>

cpp_return ==
    /\ pc = "cpp_loop"
    /\ cfg_idx > Len(Configs)
    /\ pc' = "done"
    /\ UNCHANGED <<cmd, opts, analysis, cfg_idx, selection, files, event_log, failed_at,
                   run_order, clientVars, callbackVars, filterVars, mergeVars>>

RtsCatchPropagates(step) ==
    /\ failed_at' = step
    /\ Propagate
\* An exception raised at `step` of _run_rts' try body is caught by the
\* except clause of line 400.
RtsCatch(step) ==
    /\ failed_at' = step
    /\ pc' = "rts_except"

\* _run_rts, lines 349-380: build CppFileLevelRTS or CppFunctionLevelRTS.
_run_rts_build ==
    /\ pc = "rts_build"
    /\ \/ pc' = "rts_select" /\ UNCHANGED failed_at
       \/ RtsCatch("build")
    /\ UNCHANGED <<cmd, opts, analysis, cfg_idx, selection, files, event_log, run_order,
                   clientVars, callbackVars, filterVars, mergeVars>>

\* _run_rts, lines 385-388: rts_algo.select_tests.
_run_rts_select ==
    /\ pc = "rts_select"
    /\ \/ /\ selection' = analysis
          /\ pc' = "rts_write_included"
          /\ UNCHANGED failed_at
       \/ RtsCatch("select") /\ UNCHANGED selection
    /\ UNCHANGED <<cmd, opts, analysis, cfg_idx, files, event_log, run_order, clientVars, callbackVars, filterVars, mergeVars>>

\* _run_rts, lines 390-393: write included.txt (format_test_list may raise,
\* before the file is opened).
_run_rts_write_included ==
    /\ pc = "rts_write_included"
    /\ \/ /\ files' = [files EXCEPT
                 ![Configs[cfg_idx].name][INCLUDED_TESTS_FILE] =
                     Written(format_test_list(selection.included, opts.simple_output))]
          /\ pc' = "rts_write_excluded"
          /\ UNCHANGED failed_at
       \/ RtsCatch("included") /\ UNCHANGED files
    /\ UNCHANGED <<cmd, opts, analysis, cfg_idx, selection, event_log, run_order, clientVars, callbackVars, filterVars, mergeVars>>

\* _run_rts, lines 394-397: write excluded.txt.
_run_rts_write_excluded ==
    /\ pc = "rts_write_excluded"
    /\ \/ /\ files' = [files EXCEPT
                 ![Configs[cfg_idx].name][EXCLUDED_TESTS_FILE] =
                     Written(format_test_list(selection.excluded, opts.simple_output))]
          /\ pc' = "rts_write_causes"
          /\ UNCHANGED failed_at
       \/ RtsCatch("excluded") /\ UNCHANGED files
    /\ UNCHANGED <<cmd, opts, analysis, cfg_idx, selection, event_log, run_order, clientVars, callbackVars, filterVars, mergeVars>>

\* _run_rts, lines 398-399: open selection-causes.txt with "w+" (the file
\* is created or truncated) and json.dump the causes into it; when
\* json.dump raises, what it wrote so far stays in the file.
_run_rts_write_causes ==
    /\ pc = "rts_write_causes"
    /\ \/ /\ files' = [files EXCEPT
                 ![Configs[cfg_idx].name][SELECTION_CAUSES_FILE] =
                     Written(json_dump(selection.causes))]
          /\ pc' = "rts_end_event"
          /\ UNCHANGED failed_at
       \/ /\ files' = [files EXCEPT
                 ![Configs[cfg_idx].name][SELECTION_CAUSES_FILE] =
                     Written(PartialJson)]
          /\ RtsCatch("causes")
    /\ UNCHANGED <<cmd, opts, analysis, cfg_idx, selection, event_log, run_order, clientVars, callbackVars, filterVars, mergeVars>>

ExceptWritesKeepsExcluded(before) ==
    [FallbackFiles EXCEPT ![EXCLUDED_TESTS_FILE] = before[EXCLUDED_TESTS_FILE]]
\* The three files as the except block leaves them, given the files of the
\* directory before it: each is opened for writing and so replaced.
ExceptWrites(before) == FallbackFiles

\* _run_rts, lines 400-405: the except block writes the retest-all result.
_run_rts_except ==
    /\ pc = "rts_except"
    /\ files' = [files EXCEPT ![Configs[cfg_idx].name] = ExceptWrites(@)]
    /\ pc' = "rts_end_event"
    /\ UNCHANGED <<cmd, opts, analysis, cfg_idx, selection, event_log, failed_at, run_order,
                   clientVars, callbackVars, filterVars, mergeVars>>

\* _run_rts, lines 407-409: append the END event; the loop goes on.
_run_rts_end ==
    /\ pc = "rts_end_event"
    /\ LET name == Configs[cfg_idx].name IN
          event_log' = [event_log EXCEPT
              ![name] = Append(@, EventName(RTS_END_EVENT, name))]
    /\ cfg_idx' = cfg_idx + 1
    /\ pc' = "cpp_loop"
    /\ UNCHANGED <<cmd, opts, analysis, selection, files, failed_at, run_order, clientVars, callbackVars, filterVars, mergeVars>>

\* syscalls, line 522: append the START event to opts.output/event.log.
syscalls_start ==
    /\ pc = "sys_start"
    /\ event_log' = [event_log EXCEPT ![""] = Append(@, RTS_START_EVENT \o "_syscall")]
    /\ run_order' = Append(run_order, "")
    /\ pc' = "sys_load"
    /\ UNCHANGED <<cmd, opts, analysis, cfg_idx, selection, files, failed_at, clientVars, callbackVars, filterVars, mergeVars>>

\* syscalls, lines 524-540: load the traces and build SyscallFileLevelRTS,
\* both outside the try block.
syscalls_load ==
    /\ pc = "sys_load"
    /\ \E fails \in BOOLEAN :
          IF \/ ~SupportedFormat(opts.traces_ext)
             \/ fails
          THEN Propagate
          ELSE pc' = "sys_select"
    /\ UNCHANGED <<cmd, opts, analysis, cfg_idx, selection, files, event_log, failed_at,
                   run_order, clientVars, callbackVars, filterVars, mergeVars>>

\* An exception raised at `step` of syscalls' try body is caught by the
\* except clause of line 562.
SysCatch(step) ==
    /\ failed_at' = step
    /\ pc' = "sys_except"

\* syscalls, lines 542-545: rts_algo.select_tests.
syscalls_select ==
    /\ pc = "sys_select"
    /\ \/ /\ selection' = analysis
          /\ pc' = "sys_write_included"
          /\ UNCHANGED failed_at
       \/ SysCatch("select") /\ UNCHANGED selection
    /\ UNCHANGED <<cmd, opts, analysis, cfg_idx, files, event_log, run_order, clientVars, callbackVars, filterVars, mergeVars>>

\* syscalls, lines 547-550.
syscalls_write_included ==
    /\ pc = "sys_write_included"
    /\ \/ /\ files' = [files EXCEPT ![""][INCLUDED_TESTS_FILE] =
                 Written(format_test_list(selection.included, opts.simple_output))]
          /\ pc' = "sys_write_excluded"
          /\ UNCHANGED failed_at
       \/ SysCatch("included") /\ UNCHANGED files
    /\ UNCHANGED <<cmd, opts, analysis, cfg_idx, selection, event_log, run_order, clientVars, callbackVars, filterVars, mergeVars>>

\* syscalls, lines 551-554.
syscalls_write_excluded ==
    /\ pc = "sys_write_excluded"
    /\ \/ /\ files' = [files EXCEPT ![""][EXCLUDED_TESTS_FILE] =
                 Written(format_test_list(selection.excluded, opts.simple_output))]
          /\ pc' = "sys_write_causes"
          /\ UNCHANGED failed_at
       \/ SysCatch("excluded") /\ UNCHANGED files
    /\ UNCHANGED <<cmd, opts, analysis, cfg_idx, selection, event_log, run_order, clientVars, callbackVars, filterVars, mergeVars>>

\* syscalls, lines 555-556.
syscalls_write_causes ==
    /\ pc = "sys_write_causes"
    /\ \/ /\ files' = [files EXCEPT ![""][SELECTION_CAUSES_FILE] =
                 Written(json_dump(selection.causes))]
          /\ pc' = "sys_end_event"
          /\ UNCHANGED failed_at
       \/ /\ files' = [files EXCEPT ![""][SELECTION_CAUSES_FILE] = Written(PartialJson)]
          /\ SysCatch("causes")
    /\ UNCHANGED <<cmd, opts, analysis, cfg_idx, selection, event_log, run_order, clientVars, callbackVars, filterVars, mergeVars>>

\* syscalls, lines 558-560: the END event, appended inside the try block.
syscalls_end ==
    /\ pc = "sys_end_event"
    /\ event_log' = [event_log EXCEPT ![""] = Append(@, RTS_END_EVENT \o "_syscall")]
    /\ pc' = "done"
    /\ UNCHANGED <<cmd, opts, analysis, cfg_idx, selection, files, failed_at, run_order,
                   clientVars, callbackVars, filterVars, mergeVars>>

\* syscalls, lines 562-567: the except block; the command returns after it.
syscalls_except ==
    /\ pc = "sys_except"
    /\ files' = [files EXCEPT ![""] = ExceptWrites(@)]
    /\ pc' = "done"
    /\ UNCHANGED <<cmd, opts, analysis, cfg_idx, selection, event_log, failed_at, run_order,
                   clientVars, callbackVars, filterVars, mergeVars>>

SelectNext ==
    \/ cpp_load
    \/ _run_rts_start
    \/ _run_rts_build
    \/ _run_rts_select
    \/ _run_rts_write_included
    \/ _run_rts_write_excluded
    \/ _run_rts_write_causes
    \/ _run_rts_except
    \/ _run_rts_end
    \/ cpp_return
    \/ syscalls_start
    \/ syscalls_load
    \/ syscalls_select
    \/ syscalls_write_included
    \/ syscalls_write_excluded
    \/ syscalls_write_causes
    \/ syscalls_end
    \/ syscalls_except

SelectSpec == SelectInit /\ [][SelectNext]_vars
\* The command is one sequential process: while a statement is left to run,
\* the interpreter runs it.  It stops when the command has returned or an
\* exception has left it.
SelectFairSpec == SelectSpec /\ WF_vars(SelectNext)

(***************************************************************************)
(*                          Text, as Python sees it                        *)
(***************************************************************************)
Max(a, b) == IF a >= b THEN a ELSE b
Min(a, b) == IF a <= b THEN a ELSE b

\* s.startswith(prefix)
StartsWith(s, prefix) ==
    /\ Len(s) >= Len(prefix)
    /\ SubSeq(s, 1, Len(prefix)) = prefix

\* sub in s
Contains(s, sub) ==
    \E i \in 0..(Len(s) - Len(sub)) : SubSeq(s, i + 1, i + Len(sub)) = sub

\* The index of the first "\n" of s from position i on, 0 when there is none.
RECURSIVE FindNewline(_, _)
FindNewline(s, i) ==
    IF i > Len(s) THEN 0
    ELSE IF s[i] = "\n" THEN i
    ELSE FindNewline(s, i + 1)

\* s.splitlines(): the lines of s without their line ends; a final line end
\* opens no further line, and the empty string has no line.
RECURSIVE splitlines(_)
splitlines(s) ==
    IF s = <<>> THEN <<>>
    ELSE LET i == FindNewline(s, 1) IN
         IF i = 0 THEN <<s>>
         ELSE <<SubSeq(s, 1, i - 1)>> \o splitlines(SubSeq(s, i + 1, Len(s)))

\* "\n".join(lines)
RECURSIVE join(_)
join(lines) ==
    IF lines = <<>> THEN <<>>
    ELSE IF Len(lines) = 1 THEN lines[1]
    ELSE lines[1] \o <<"\n">> \o join(Tail(lines))

\* A slice bound of a list of length n, as Python normalises it: a negative
\* bound counts from the end, and the bound is clamped to 0..n.
SliceBound(i, n) == IF i < 0 THEN Max(i + n, 0) ELSE Min(i, n)
\* lines[:i] and lines[i:]
SliceTo(lines, i) == SubSeq(lines, 1, SliceBound(i, Len(lines)))
SliceFrom(lines, i) == SubSeq(lines, SliceBound(i, Len(lines)) + 1, Len(lines))

\* \d, and int() of a string of digits.
Digits == {"0", "1", "2", "3", "4", "5", "6", "7", "8", "9"}
DigitValue(c) ==
    CASE c = "0" -> 0 [] c = "1" -> 1 [] c = "2" -> 2 [] c = "3" -> 3
      [] c = "4" -> 4 [] c = "5" -> 5 [] c = "6" -> 6 [] c = "7" -> 7
      [] c = "8" -> 8 [] c = "9" -> 9
RECURSIVE int(_)
int(ds) ==
    IF ds = <<>> THEN 0
    ELSE 10 * int(SubSeq(ds, 1, Len(ds) - 1)) + DigitValue(ds[Len(ds)])

\* s[a-1:b]: the characters a..b of s that s has
Part(s, a, b) == SubSeq(s, a, Min(b, Len(s)))

\* The end of the longest run of digits of s that starts at position i
\* (i - 1 when s has no digit at i).
RECURSIVE DigitsEnd(_, _)
DigitsEnd(s, i) ==
    IF i <= Len(s) /\ s[i] \in Digits THEN DigitsEnd(s, i + 1) ELSE i - 1

\* revision.lower(), on the letters revisions are written with.
LowerChar(c) ==
    CASE c = "H" -> "h" [] c = "E" -> "e" [] c = "A" -> "a" [] c = "D" -> "d"
      [] c = "N" -> "n" [] c = "W" -> "w" [] c = "O" -> "o" [] c = "L" -> "l"
      [] c = "T" -> "t"
      [] OTHER -> c
lower(s) == [i \in 1..Len(s) |-> LowerChar(s[i])]

(***************************************************************************)
(*                          vcs/diff_file.py                               *)
(***************************************************************************)
ADDED == "ADDED"
MODIFIED == "MODIFIED"
DELETED == "DELETED"

\* diff_pattern = ^diff --git a/(?P<filepath>.*) b/.*$ : the line starts with
\* "diff --git a/" and the greedy filepath group ends where the last " b/"
\* of the rest of the line begins.
DiffGitPrefix == <<"d", "i", "f", "f", " ", "-", "-", "g", "i", "t">>
DiffGitAPrefix == <<"d", "i", "f", "f", " ", "-", "-", "g", "i", "t", " ", "a", "/">>
SpaceB == <<" ", "b", "/">>
RECURSIVE LastSpaceB(_, _)
LastSpaceB(line, i) ==
    IF i <= Len(DiffGitAPrefix) THEN 0
    ELSE IF Part(line, i, i + Len(SpaceB) - 1) = SpaceB THEN i
    ELSE LastSpaceB(line, i - 1)
diff_pattern(line) ==
    IF ~StartsWith(line, DiffGitAPrefix) THEN [matched |-> FALSE, filepath |-> <<>>]
    ELSE LET i == LastSpaceB(line, Len(line) - Len(SpaceB) + 1) IN
         IF i = 0 THEN [matched |-> FALSE, filepath |-> <<>>]
         ELSE [matched |-> TRUE,
               filepath |-> SubSeq(line, Len(DiffGitAPrefix) + 1, i - 1)]

\* An optional (?:,(\d+))? group of hunk_pattern at position i of the line:
\* whether it is there, its digits, and the position after it.
OptionalCount(line, i) ==
    LET e == DigitsEnd(line, i + 1) IN
    IF i <= Len(line) /\ line[i] = "," /\ e >= i + 1
    THEN [given |-> TRUE, digits |-> SubSeq(line, i + 1, e), next |-> e + 1]
    ELSE [given |-> FALSE, digits |-> <<>>, next |-> i]

\* hunk_pattern =
\*   ^@@ -(?P<old_start>\d+)(?:,(?P<old_count>\d+))? \+(?P<new_start>\d+)(?:,(?P<new_count>\d+))? @@
\* matched at the start of the line; the groups as the strings matched.
HunkPrefix == <<"@", "@", " ", "-">>
SpacePlus == <<" ", "+">>
HunkSuffix == <<" ", "@", "@">>
NoHunkMatch ==
    [matched |-> FALSE, old_start |-> <<>>, old_count |-> <<>>, old_count_given |-> FALSE,
     new_start |-> <<>>, new_count |-> <<>>, new_count_given |-> FALSE]
hunk_pattern(line) ==
    IF ~StartsWith(line, HunkPrefix) THEN NoHunkMatch
    ELSE
    LET s1 == Len(HunkPrefix) + 1
        e1 == DigitsEnd(line, s1)
        c1 == OptionalCount(line, e1 + 1)
        s2 == c1.next + Len(SpacePlus)
        e2 == DigitsEnd(line, s2)
        c2 == OptionalCount(line, e2 + 1)
    IN  IF /\ e1 >= s1
           /\ Part(line, c1.next, s2 - 1) = SpacePlus
           /\ e2 >= s2
           /\ Part(line, c2.next, c2.next + Len(HunkSuffix) - 1) = HunkSuffix
        THEN [matched |-> TRUE,
              old_start |-> SubSeq(line, s1, e1),
              old_count |-> c1.digits, old_count_given |-> c1.given,
              new_start |-> SubSeq(line, s2, e2),
              new_count |-> c2.digits, new_count_given |-> c2.given]
        ELSE NoHunkMatch

\* str(Path(s)).replace("\\", "/") for a relative path: pathlib drops empty
\* and "." components, and the path without components is ".".
RECURSIVE PathParts(_)
PathParts(s) ==
    LET RECURSIVE slash(_)
        slash(i) == IF i > Len(s) THEN 0 ELSE IF s[i] = "/" THEN i ELSE slash(i + 1)
        i == slash(1)
        head == IF i = 0 THEN s ELSE SubSeq(s, 1, i - 1)
        rest == IF i = 0 THEN <<>> ELSE PathParts(SubSeq(s, i + 1, Len(s)))
    IN  IF s = <<>> THEN <<>>
        ELSE IF head = <<>> \/ head = <<".">> THEN rest
        ELSE <<head>> \o rest
RECURSIVE JoinSlash(_)
JoinSlash(parts) ==
    IF Len(parts) = 1 THEN parts[1]
    ELSE parts[1] \o <<"/">> \o JoinSlash(Tail(parts))
PathStr(s) ==
    LET parts == PathParts(s)
        str == IF parts = <<>> THEN <<".">> ELSE JoinSlash(parts)
    IN  [i \in 1..Len(str) |-> IF str[i] = "\\" THEN "/" ELSE str[i]]

NewFileMode == <<"n", "e", "w", " ", "f", "i", "l", "e", " ", "m", "o", "d", "e">>
DeletedFileMode == <<"d", "e", "l", "e", "t", "e", "d", " ", "f", "i", "l", "e", " ", "m", "o", "d", "e">>

\* _file_diffs[key] = value
SetItem(dict, key, value) ==
    [k \in DOMAIN dict \cup {key} |-> IF k = key THEN value ELSE dict[k]]

\* get_diff, lines 78-110: the loop over the lines of the diff, from line
\* idx on, on the loop's variables st = (current_file, current_diff_lines,
\* _file_diffs, items); current_file is <<>> for None and <<name>> otherwise.
\* An item of the changelist; two items are the same item when path and
\* action are the same.
ChangelistItem(filepath, action) == [filepath |-> filepath, action |-> action]

\* lines[idx + 1] of line 98 raises IndexError past the end of the list
IndexError == "IndexError"
\* Lines 96-102: the action of the section whose header is line idx
ActionTwoAfter(lines, idx) ==
    IF idx + 2 <= Len(lines)
    THEN IF Contains(lines[idx + 2], NewFileMode) THEN ADDED
         ELSE IF Contains(lines[idx + 2], DeletedFileMode) THEN DELETED
         ELSE MODIFIED
    ELSE MODIFIED
ActionAfterUnguarded(lines, idx) ==
    IF idx + 1 > Len(lines) THEN IndexError
    ELSE IF Contains(lines[idx + 1], NewFileMode) THEN ADDED
    ELSE IF Contains(lines[idx + 1], DeletedFileMode) THEN DELETED
    ELSE MODIFIED
ActionAfter(lines, idx) ==
    IF idx + 1 <= Len(lines)
    THEN IF Contains(lines[idx + 1], NewFileMode) THEN ADDED
         ELSE IF Contains(lines[idx + 1], DeletedFileMode) THEN DELETED
         ELSE MODIFIED
    ELSE MODIFIED

RECURSIVE GetDiffLoop(_, _, _)
GetDiffLoop(lines, idx, st) ==
    IF idx > Len(lines)
    THEN \* Save last file's diff
         IF st.current_file # <<>>
         THEN [st EXCEPT !.file_diffs =
                  SetItem(@, st.current_file[1], join(st.current_diff_lines))]
         ELSE st
    ELSE
    LET line == lines[idx] IN
    IF StartsWith(line, DiffGitPrefix)
    THEN LET saved == IF st.current_file # <<>>
                      THEN SetItem(st.file_diffs, st.current_file[1],
                                   join(st.current_diff_lines))
                      ELSE st.file_diffs
             match == diff_pattern(line)
             action == ActionAfter(lines, idx)
         IN  IF match.matched /\ action = IndexError
             THEN [st EXCEPT !.file_diffs = saved, !.raised = TRUE]
             ELSE IF match.matched
             THEN GetDiffLoop(lines, idx + 1,
                      [current_file |-> <<match.filepath>>,
                       current_diff_lines |-> <<line>>,
                       file_diffs |-> saved,
                       items |-> st.items \cup
                                   {ChangelistItem(PathStr(match.filepath), action)},
                       raised |-> FALSE])
             ELSE GetDiffLoop(lines, idx + 1, [st EXCEPT !.file_diffs = saved])
    ELSE IF st.current_file # <<>>
    THEN GetDiffLoop(lines, idx + 1,
             [st EXCEPT !.current_diff_lines = Append(@, line)])
    ELSE GetDiffLoop(lines, idx + 1, st)

\* list(items) of line 112: the items of the set in any one order
ListsOf(items) ==
    {l \in [1..Cardinality(items) -> items] :
        \A i, j \in DOMAIN l : l[i] = l[j] => i = j}
\* Lines 78-110 on a client that has nothing parsed yet
ParseDiff(file_diffs, content_lines) ==
    GetDiffLoop(content_lines, 1,
        [current_file |-> <<>>, current_diff_lines |-> <<>>,
         file_diffs |-> file_diffs, items |-> {}, raised |-> FALSE])
\* get_diff, lines 75-122, as a function of the client's fields: the ways it
\* can end, each with the changelist it caches and returns (<<>> for None,
\* <<items>> once parsed), the _file_diffs it leaves, whether it parsed and
\* whether it raised.
AlwaysParse(changelist, file_diffs, content_lines) ==
    LET st == ParseDiff(file_diffs, content_lines) IN
    {[changelist |-> <<l>>, file_diffs |-> st.file_diffs, parsed |-> TRUE,
      raised |-> FALSE] : l \in ListsOf(st.items)}
get_diff(changelist, file_diffs, content_lines) ==
    IF changelist # <<>>
    THEN {[changelist |-> changelist, file_diffs |-> file_diffs, parsed |-> FALSE,
           raised |-> FALSE]}
    ELSE LET st == ParseDiff(file_diffs, content_lines) IN
         IF st.raised
         THEN {[changelist |-> <<>>, file_diffs |-> st.file_diffs, parsed |-> TRUE,
                raised |-> TRUE]}
         ELSE {[changelist |-> <<l>>, file_diffs |-> st.file_diffs, parsed |-> TRUE,
                raised |-> FALSE] : l \in ListsOf(st.items)}

\* hunk_line.startswith(c), and hunk_line[1:]
Tagged(line, c) == Len(line) >= 1 /\ line[1] = c
Untag(line) == SubSeq(line, 2, Len(line))
HunkLineTags == {"+", "-", " ", "\\"}

\* _parse_hunks, lines 398-412: the loop over the lines of a diff section
\* on (hunks, current_hunk); current_hunk is <<>> for None.
\* int(match.group(...) or 1), lines 405 and 407: the group is None when the
\* count is not written, and a written count is a non-empty string
CountZeroIsOne(given, digits) == IF given /\ int(digits) # 0 THEN int(digits) ELSE 1
CountOrOne(given, digits) == IF given THEN int(digits) ELSE 1
RECURSIVE ParseHunksLoop(_, _, _)
ParseHunksLoop(lines, hunks, current_hunk) ==
    IF lines = <<>> THEN hunks \o current_hunk
    ELSE
    LET line == Head(lines)
        match == hunk_pattern(line)
    IN  IF match.matched
        THEN ParseHunksLoop(Tail(lines), hunks \o current_hunk,
                 << [old_start |-> int(match.old_start),
                     old_count |-> CountOrOne(match.old_count_given, match.old_count),
                     new_start |-> int(match.new_start),
                     new_count |-> CountOrOne(match.new_count_given, match.new_count),
                     lines |-> <<>>] >>)
        ELSE IF current_hunk # <<>> /\ \E c \in HunkLineTags : Tagged(line, c)
        THEN ParseHunksLoop(Tail(lines), hunks,
                 << [current_hunk[1] EXCEPT !.lines = Append(@, line)] >>)
        ELSE ParseHunksLoop(Tail(lines), hunks, current_hunk)
_parse_hunks(diff_section) == ParseHunksLoop(splitlines(diff_section), <<>>, <<>>)

\* The lines of a hunk that carry one of the two tags, the tag removed:
\* new_section is Section(lines, "+"), old_section is Section(lines, "-").
Section(hunk_lines, tag) ==
    LET Kept(l) == Tagged(l, tag) \/ Tagged(l, " ")
        kept == SelectSeq(hunk_lines, Kept)
    IN  [i \in 1..Len(kept) |-> Untag(kept[i])]

ForwardApplyHunkOneLineLower(lines, hunk) ==
    LET new_section == Section(hunk.lines, "+")
        old_end_idx == hunk.old_start + hunk.old_count
    IN  SliceTo(lines, hunk.old_start) \o new_section \o SliceFrom(lines, old_end_idx)
_forward_apply_hunk(lines, hunk) ==
    LET old_start_idx == hunk.old_start - 1
        new_section == Section(hunk.lines, "+")
        old_end_idx == old_start_idx + hunk.old_count
    IN  SliceTo(lines, old_start_idx) \o new_section \o SliceFrom(lines, old_end_idx)

_reverse_apply_hunk(lines, hunk) ==
    LET new_start_idx == hunk.new_start - 1
        old_section == Section(hunk.lines, "-")
        new_end_idx == new_start_idx + hunk.new_count
    IN  SliceTo(lines, new_start_idx) \o old_section \o SliceFrom(lines, new_end_idx)

Reverse(seq) == [i \in 1..Len(seq) |-> seq[Len(seq) + 1 - i]]
FirstToLast(hunks) == hunks
\* reversed(hunks), lines 259 and 388
reversed(hunks) == Reverse(hunks)

\* The hunk loops, lines 259-260 and 388-389: the final current_lines and,
\* for each iteration, the hunk taken and current_lines before it.
RECURSIVE ForwardLoop(_, _, _)
ForwardLoop(current_lines, hunks, steps) ==
    IF hunks = <<>> THEN [lines |-> current_lines, trace |-> steps]
    ELSE ForwardLoop(_forward_apply_hunk(current_lines, Head(hunks)), Tail(hunks),
                     Append(steps, [hunk |-> Head(hunks), lines |-> current_lines]))
RECURSIVE ReverseLoop(_, _, _)
ReverseLoop(current_lines, hunks, steps) ==
    IF hunks = <<>> THEN [lines |-> current_lines, trace |-> steps]
    ELSE ReverseLoop(_reverse_apply_hunk(current_lines, Head(hunks)), Tail(hunks),
                     Append(steps, [hunk |-> Head(hunks), lines |-> current_lines]))

\* What a call leaves behind: the string returned, whether the file on disk
\* was looked at, and the iterations of the hunk loop.
Returned(text, disk_looked, steps) ==
    [returned |-> TRUE, text |-> text, disk_read |-> disk_looked, trace |-> steps]

_forward_apply_diff(file_diffs, filepath, current_content) ==
    IF filepath \notin DOMAIN file_diffs THEN Returned(current_content, TRUE, <<>>)
    ELSE LET hunks == _parse_hunks(file_diffs[filepath])
             out == ForwardLoop(splitlines(current_content), reversed(hunks), <<>>)
         IN  Returned(join(out.lines), TRUE, out.trace)

_reverse_apply_diff(file_diffs, filepath, current_content) ==
    IF filepath \notin DOMAIN file_diffs THEN Returned(current_content, TRUE, <<>>)
    ELSE LET hunks == _parse_hunks(file_diffs[filepath])
             out == ReverseLoop(splitlines(current_content), reversed(hunks), <<>>)
         IN  Returned(join(out.lines), TRUE, out.trace)

\* _reconstruct_added_file / _reconstruct_deleted_file, lines 221-237 and
\* 350-366: the loop on (lines, in_hunk); tag is the tag of the lines kept.
HeaderAsHunkMark == DiffGitPrefix
HunkMark == <<"@", "@">>
RECURSIVE ReconstructLoop(_, _, _, _)
ReconstructLoop(section_lines, tag, lines, in_hunk) ==
    IF section_lines = <<>> THEN lines
    ELSE
    LET line == Head(section_lines) IN
    IF StartsWith(line, HunkMark)
    THEN ReconstructLoop(Tail(section_lines), tag, lines, TRUE)
    ELSE IF in_hunk /\ (Tagged(line, tag) \/ Tagged(line, " "))
    THEN ReconstructLoop(Tail(section_lines), tag, Append(lines, Untag(line)), in_hunk)
    ELSE ReconstructLoop(Tail(section_lines), tag, lines, in_hunk)

_reconstruct_added_file(file_diffs, filepath) ==
    IF filepath \notin DOMAIN file_diffs THEN Returned(<<>>, FALSE, <<>>)
    ELSE Returned(join(ReconstructLoop(splitlines(file_diffs[filepath]), "+", <<>>, FALSE)),
                  FALSE, <<>>)

_reconstruct_deleted_file(file_diffs, filepath) ==
    IF filepath \notin DOMAIN file_diffs THEN Returned(<<>>, FALSE, <<>>)
    ELSE Returned(join(ReconstructLoop(splitlines(file_diffs[filepath]), "-", <<>>, FALSE)),
                  FALSE, <<>>)

ReadFileWithoutLastNewline(files_on_disk, filepath) ==
    IF filepath \in DOMAIN files_on_disk
    THEN Returned(join(splitlines(files_on_disk[filepath])), TRUE, <<>>)
    ELSE Returned(<<>>, TRUE, <<>>)
_read_file_from_disk(files_on_disk, filepath) ==
    IF filepath \in DOMAIN files_on_disk
    THEN Returned(files_on_disk[filepath], TRUE, <<>>)
    ELSE Returned(<<>>, TRUE, <<>>)

\* Lines 186-190 and 311-315: the item the loop over _changelist.items
\* stops at, the first of the path in the list; <<>> is None.
NoItemFound(items, filepath) == <<>>
RECURSIVE ItemFound(_, _)
ItemFound(items, filepath) ==
    IF items = <<>> THEN <<>>
    ELSE IF PathStr(Head(items).filepath) = filepath THEN <<Head(items)>>
    ELSE ItemFound(Tail(items), filepath)

\* `not current_content` at line 206: a file that exists but is empty is
\* told apart from a missing one only by this reading.
EmptyIsMissing(current_content) == current_content = <<>>

\* _get_new_file_content after get_diff(), with the item found
_get_new_file_content(file_diffs, files_on_disk, filepath, item) ==
    IF item = <<>> THEN _read_file_from_disk(files_on_disk, filepath)
    ELSE IF item[1].action = DELETED THEN Returned(<<>>, FALSE, <<>>)
    ELSE IF item[1].action = ADDED THEN _reconstruct_added_file(file_diffs, filepath)
    ELSE LET current_content == _read_file_from_disk(files_on_disk, filepath).text IN
         IF EmptyIsMissing(current_content) THEN Returned(<<>>, TRUE, <<>>)
         ELSE _forward_apply_diff(file_diffs, filepath, current_content)

\* _get_old_file_content after get_diff(), with the item found
_get_old_file_content(file_diffs, files_on_disk, filepath, item) ==
    IF item = <<>> THEN _read_file_from_disk(files_on_disk, filepath)
    ELSE IF item[1].action = ADDED THEN Returned(<<>>, FALSE, <<>>)
    ELSE IF item[1].action = DELETED THEN _reconstruct_deleted_file(file_diffs, filepath)
    ELSE IF filepath \notin DOMAIN files_on_disk THEN Returned(<<>>, TRUE, <<>>)
    ELSE _reverse_apply_diff(file_diffs, filepath, files_on_disk[filepath])

NewRevisions == {<<"h", "e", "a", "d">>, <<"n", "e", "w">>, <<"t", "o">>, <<>>}
is_new_revision(revision) == lower(revision) \in NewRevisions

\* Which of the four branches of lines 148-163 a call takes
Branch(state, revision) ==
    IF state = "new"
    THEN IF is_new_revision(revision) THEN "disk" ELSE "old_content"
    ELSE IF is_new_revision(revision) THEN "new_content" ELSE "disk"

\* The inputs of the calls
\* select.py lines 165-166 and 172-173: the revisions the callback puts into
\* ctx.obj for a diff-backed client
DirtyFrom == <<"H", "E", "A", "D">>
DirtyTo == <<"d", "i", "r", "t", "y">>
DiffFileFrom == <<"o", "l", "d">>
DiffFileTo == <<"n", "e", "w">>
Revisions == {DirtyFrom, DirtyTo, DiffFileFrom, DiffFileTo}
F == <<"f">>
G == <<"g">>
Paths == {F, G}

\* get_diff() called by the user of the client
GetDiff ==
    \E parsed \in get_diff(_changelist, _file_diffs, splitlines(diff_content)) :
        /\ _changelist' = parsed.changelist
        /\ _file_diffs' = parsed.file_diffs
        /\ parses' = IF parsed.parsed THEN parses + 1 ELSE parses
        /\ raised' = parsed.raised
        /\ UNCHANGED <<repo_state, diff_content, disk, call, trace, disk_read, result>>
        /\ UNCHANGED <<selectVars, callbackVars, filterVars, mergeVars>>

\* get_file_content_at_revision(revision, filepath), filepath relative
GetFileContentAtRevision(revision, filepath) ==
    LET filepath_str == PathStr(filepath)
        branch == Branch(repo_state, revision)
    IN
    /\ IF branch = "disk"
       THEN LET out == _read_file_from_disk(disk, filepath_str) IN
            /\ call' = [made |-> TRUE, revision |-> revision, filepath |-> filepath,
                        item |-> <<>>, cached |-> FALSE]
            /\ result' = [returned |-> TRUE, text |-> out.text]
            /\ disk_read' = out.disk_read
            /\ trace' = out.trace
            /\ raised' = FALSE
            /\ UNCHANGED <<_changelist, _file_diffs, parses>>
       ELSE \E parsed \in get_diff(_changelist, _file_diffs, splitlines(diff_content)) :
            /\ _changelist' = parsed.changelist
            /\ _file_diffs' = parsed.file_diffs
            /\ parses' = IF parsed.parsed THEN parses + 1 ELSE parses
            /\ raised' = parsed.raised
            /\ IF parsed.raised
               THEN /\ call' = [made |-> TRUE, revision |-> revision,
                                filepath |-> filepath, item |-> <<>>,
                                cached |-> ~parsed.parsed]
                    /\ result' = NoResult
                    /\ disk_read' = FALSE
                    /\ trace' = <<>>
               ELSE LET item == ItemFound(parsed.changelist[1], filepath_str)
                        out == IF branch = "new_content"
                               THEN _get_new_file_content(parsed.file_diffs, disk,
                                                          filepath_str, item)
                               ELSE _get_old_file_content(parsed.file_diffs, disk,
                                                          filepath_str, item)
                    IN
                    /\ call' = [made |-> TRUE, revision |-> revision,
                                filepath |-> filepath, item |-> item,
                                cached |-> ~parsed.parsed]
                    /\ result' = [returned |-> TRUE, text |-> out.text]
                    /\ disk_read' = out.disk_read
                    /\ trace' = out.trace
    /\ UNCHANGED <<repo_state, diff_content, disk>>
    /\ UNCHANGED <<selectVars, callbackVars, filterVars, mergeVars>>

ClientNext ==
    \/ GetDiff
    \/ \E revision \in Revisions, filepath \in Paths :
          GetFileContentAtRevision(revision, filepath)

(***************************************************************************)
(*  The diffs, files and calls the client is run on.  A file is edited by  *)
(*  a script of keep / delete / insert steps over its lines; the unified   *)
(*  diff of the edit is written the way `git diff -U<context>` writes it.  *)
(***************************************************************************)
Letters == <<"a", "b", "c", "d", "e">>
OldLine(k) == << Letters[((k - 1) % Len(Letters)) + 1] >>
InsertedLine == <<"x">>
Ops == {"keep", "delete", "insert"}
OldSide == {"keep", "delete"}
NewSide == {"keep", "insert"}
Scripts(n) == UNION {[1..k -> Ops] : k \in 0..n}

\* How many of the first i steps of the script are of the given kinds
CountOps(script, i, kinds) == Cardinality({j \in 1..i : script[j] \in kinds})
StepLine(script, j) ==
    IF script[j] = "insert" THEN InsertedLine
    ELSE OldLine(CountOps(script, j, OldSide))
\* The lines of the file before (OldSide) and after (NewSide) the edit
RECURSIVE SideLines(_, _, _)
SideLines(script, side, j) ==
    IF j > Len(script) THEN <<>>
    ELSE (IF script[j] \in side THEN <<StepLine(script, j)>> ELSE <<>>)
         \o SideLines(script, side, j + 1)
\* A file of the given lines, each ended by a newline
FileText(lines) == IF lines = <<>> THEN <<>> ELSE join(lines) \o <<"\n">>

\* Step i is shown in a hunk: it changes the file or is within `context`
\* steps of one that does.
InHunk(script, context, i) ==
    \E j \in 1..Len(script) :
        script[j] # "keep" /\ j >= i - context /\ j <= i + context
RECURSIVE RunEnd(_, _, _)
RunEnd(script, context, i) ==
    IF i < Len(script) /\ InHunk(script, context, i + 1)
    THEN RunEnd(script, context, i + 1) ELSE i
\* The hunks of the edit, as <<first step, last step>>, from step i on
RECURSIVE Runs(_, _, _)
Runs(script, context, i) ==
    IF i > Len(script) THEN <<>>
    ELSE IF InHunk(script, context, i)
    THEN LET e == RunEnd(script, context, i) IN
         << <<i, e>> >> \o Runs(script, context, e + 1)
    ELSE Runs(script, context, i + 1)

DigitChars == <<"0", "1", "2", "3", "4", "5", "6", "7", "8", "9">>
RECURSIVE Decimal(_)
Decimal(n) ==
    IF n < 10 THEN <<DigitChars[n + 1]>>
    ELSE Decimal(n \div 10) \o <<DigitChars[(n % 10) + 1]>>
\* "start,count" of a hunk header; git leaves out a count of 1 and names the
\* line before an empty range.
RangeText(before, count) ==
    IF count = 1 THEN Decimal(before + 1)
    ELSE Decimal(IF count = 0 THEN before ELSE before + 1) \o <<",">> \o Decimal(count)
StepTag(op) == IF op = "keep" THEN " " ELSE IF op = "delete" THEN "-" ELSE "+"
HunkLines(script, run) ==
    LET first == run[1]
        last == run[2]
        old_before == CountOps(script, first - 1, OldSide)
        new_before == CountOps(script, first - 1, NewSide)
        old_count == CountOps(script, last, OldSide) - old_before
        new_count == CountOps(script, last, NewSide) - new_before
    IN  << HunkPrefix \o RangeText(old_before, old_count) \o SpacePlus
             \o RangeText(new_before, new_count) \o HunkSuffix >>
        \o [k \in 1..(last - first + 1) |->
               <<StepTag(script[first + k - 1])>> \o StepLine(script, first + k - 1)]
RECURSIVE AllHunkLines(_, _)
AllHunkLines(script, runs) ==
    IF runs = <<>> THEN <<>>
    ELSE HunkLines(script, Head(runs)) \o AllHunkLines(script, Tail(runs))

NoNewlineMarker == <<"\\", " ", "N", "o", " ", "n", "e", "w", "l", "i", "n", "e", " ", "a", "t", " ", "e", "n", "d", " ", "o", "f", " ", "f", "i", "l", "e">>
ModeLine(action) ==
    IF action = ADDED THEN <<"n", "e", "w", " ", "f", "i", "l", "e", " ", "m", "o", "d", "e", " ", "1", "0", "0", "6", "4", "4">>
    ELSE IF action = DELETED THEN <<"d", "e", "l", "e", "t", "e", "d", " ", "f", "i", "l", "e", " ", "m", "o", "d", "e", " ", "1", "0", "0", "6", "4", "4">>
    ELSE <<"i", "n", "d", "e", "x", " ", "1", "a", ".", ".", "2", "b", " ", "1", "0", "0", "6", "4", "4">>
MinusNull == <<"-", "-", "-", " ", "/", "d", "e", "v", "/", "n", "u", "l", "l">>
PlusNull == <<"+", "+", "+", " ", "/", "d", "e", "v", "/", "n", "u", "l", "l">>
\* The section of the diff for one path
SectionLines(path, action, script, context, marker) ==
    LET runs == Runs(script, context, 1) IN
    IF runs = <<>> /\ action = MODIFIED THEN <<>>
    ELSE << DiffGitAPrefix \o path \o SpaceB \o path >>
         \o (IF action = MODIFIED THEN <<>> ELSE <<ModeLine(action)>>)
         \o << ModeLine(MODIFIED),
               IF action = ADDED THEN MinusNull ELSE <<"-", "-", "-", " ", "a", "/">> \o path,
               IF action = DELETED THEN PlusNull ELSE <<"+", "+", "+", " ", "b", "/">> \o path >>
         \o AllHunkLines(script, runs)
         \o (IF marker THEN <<NoNewlineMarker>> ELSE <<>>)
DiffText(lines) == FileText(lines)

\* The state of the commands while the client is used on its own
SelectIdle ==
    /\ cmd = "none"
    /\ opts = [evaluation |-> FALSE, java |-> FALSE, file_level |-> FALSE,
               simple_output |-> FALSE, lookup_ext |-> ".csv", traces_ext |-> ".csv"]
    /\ analysis = NoSelection
    /\ pc = "done"
    /\ cfg_idx = 1
    /\ selection = NoSelection
    /\ files = [d \in OutputDirs |-> NoFiles]
    /\ event_log = [d \in OutputDirs |-> <<>>]
    /\ failed_at = "none"
    /\ run_order = <<>>

\* A client as __init__ leaves it, lines 48-53
Constructed(state, content, files_on_disk) ==
    /\ repo_state = state
    /\ diff_content = content
    /\ disk = files_on_disk
    /\ _changelist = <<>>
    /\ _file_diffs = EmptyDict
    /\ call = NoCall
    /\ trace = <<>>
    /\ disk_read = FALSE
    /\ result = NoResult
    /\ parses = 0
    /\ raised = FALSE

Contexts == {0, 1}
UntouchedFile == <<"g", "\n">>
OnDisk(path, text) == [p \in {path} |-> text]
Both(d1, d2) == [p \in DOMAIN d1 \cup DOMAIN d2 |-> IF p \in DOMAIN d1 THEN d1[p] ELSE d2[p]]

\* The file [A,B,C,D,E] whose lines A and D are replaced by A2 and D2
ExampleOld == <<<<"A">>, <<"B">>, <<"C">>, <<"D">>, <<"E">>>>
ExampleNew == <<<<"A", "2">>, <<"B">>, <<"C">>, <<"D", "2">>, <<"E">>>>
ExampleDiff ==
    << <<"d", "i", "f", "f", " ", "-", "-", "g", "i", "t", " ", "a", "/", "f", " ", "b", "/", "f">>,
       <<"i", "n", "d", "e", "x", " ", "1", "a", ".", ".", "2", "b", " ", "1", "0", "0", "6", "4", "4">>,
       <<"-", "-", "-", " ", "a", "/", "f">>,
       <<"+", "+", "+", " ", "b", "/", "f">>,
       <<"@", "@", " ", "-", "1", ",", "1", " ", "+", "1", ",", "1", " ", "@", "@">>,
       <<"-", "A">>,
       <<"+", "A", "2">>,
       <<"@", "@", " ", "-", "4", ",", "1", " ", "+", "4", ",", "1", " ", "@", "@">>,
       <<"-", "D">>,
       <<"+", "D", "2">> >>

\* Edited files: path f holds the old side (repo state "old") or the new
\* side (repo state "new") of an edit, the diff is the diff of that edit,
\* and g is a file the diff does not touch.
ApplyInit ==
    /\ SelectIdle
    /\ CallbackIdle
    /\ FilterIdle
    /\ MergeIdle
    /\ \E state \in {"old", "new"} :
          \/ \E script \in Scripts(MaxScript), context \in Contexts :
                Constructed(state,
                    DiffText(SectionLines(F, MODIFIED, script, context, FALSE)),
                    Both(OnDisk(F, FileText(SideLines(script,
                             IF state = "old" THEN OldSide ELSE NewSide, 1))),
                         OnDisk(G, UntouchedFile)))
          \/ Constructed(state, DiffText(ExampleDiff),
                 Both(OnDisk(F, FileText(IF state = "old" THEN ExampleOld ELSE ExampleNew)),
                      OnDisk(G, UntouchedFile)))
ApplySpec == ApplyInit /\ [][ClientNext]_vars

\* Diffs git does not write, or writes rarely
\* f is added by a first section and modified by a second one
TwoSectionsOfOnePath ==
    << <<"d", "i", "f", "f", " ", "-", "-", "g", "i", "t", " ", "a", "/", "f", " ", "b", "/", "f">>,
       <<"n", "e", "w", " ", "f", "i", "l", "e", " ", "m", "o", "d", "e", " ", "1", "0", "0", "6", "4", "4">>,
       <<"-", "-", "-", " ", "/", "d", "e", "v", "/", "n", "u", "l", "l">>,
       <<"+", "+", "+", " ", "b", "/", "f">>,
       <<"@", "@", " ", "-", "0", ",", "0", " ", "+", "1", " ", "@", "@">>,
       <<"+", "a">>,
       <<"d", "i", "f", "f", " ", "-", "-", "g", "i", "t", " ", "a", "/", "f", " ", "b", "/", "f">>,
       <<"i", "n", "d", "e", "x", " ", "1", "a", ".", ".", "2", "b", " ", "1", "0", "0", "6", "4", "4">>,
       <<"-", "-", "-", " ", "a", "/", "f">>,
       <<"+", "+", "+", " ", "b", "/", "f">>,
       <<"@", "@", " ", "-", "1", " ", "+", "1", " ", "@", "@">>,
       <<"-", "a">>,
       <<"+", "b">> >>
\* Text before the first header, a section of another path, and the header
\* of f as the last line
HeaderLast ==
    << <<"c", "o", "m", "m", "i", "t", " ", "1">>,
       <<"+", "s", "t", "r", "a", "y">>,
       <<"d", "i", "f", "f", " ", "-", "-", "g", "i", "t", " ", "a", "/", "h", " ", "b", "/", "h">>,
       <<"d", "e", "l", "e", "t", "e", "d", " ", "f", "i", "l", "e", " ", "m", "o", "d", "e", " ", "1", "0", "0", "6", "4", "4">>,
       <<"-", "-", "-", " ", "a", "/", "h">>,
       <<"+", "+", "+", " ", "/", "d", "e", "v", "/", "n", "u", "l", "l">>,
       <<"@", "@", " ", "-", "1", " ", "+", "0", ",", "0", " ", "@", "@">>,
       <<"-", "a">>,
       <<"d", "i", "f", "f", " ", "-", "-", "g", "i", "t", " ", "a", "/", "f", " ", "b", "/", "f">> >>
\* 'new file mode' two lines after the header of f
ModeLineLate ==
    << <<"d", "i", "f", "f", " ", "-", "-", "g", "i", "t", " ", "a", "/", "f", " ", "b", "/", "f">>,
       <<"i", "n", "d", "e", "x", " ", "1", "a", ".", ".", "2", "b", " ", "1", "0", "0", "6", "4", "4">>,
       <<"n", "e", "w", " ", "f", "i", "l", "e", " ", "m", "o", "d", "e", " ", "1", "0", "0", "6", "4", "4">>,
       <<"-", "-", "-", " ", "/", "d", "e", "v", "/", "n", "u", "l", "l">>,
       <<"+", "+", "+", " ", "b", "/", "f">>,
       <<"@", "@", " ", "-", "0", ",", "0", " ", "+", "1", " ", "@", "@">>,
       <<"+", "a">> >>
\* A line that starts like a header and is none, after the section of f
MalformedHeader ==
    << <<"d", "i", "f", "f", " ", "-", "-", "g", "i", "t", " ", "a", "/", "f", " ", "b", "/", "f">>,
       <<"i", "n", "d", "e", "x", " ", "1", "a", ".", ".", "2", "b", " ", "1", "0", "0", "6", "4", "4">>,
       <<"-", "-", "-", " ", "a", "/", "f">>,
       <<"+", "+", "+", " ", "b", "/", "f">>,
       <<"@", "@", " ", "-", "1", " ", "+", "1", " ", "@", "@">>,
       <<"-", "a">>,
       <<"+", "b">>,
       <<"d", "i", "f", "f", " ", "-", "-", "g", "i", "t", " ", "x", " ", "y">>,
       <<"-", "-", "-", " ", "x">>,
       <<"+", "+", "+", " ", "y">>,
       <<"@", "@", " ", "-", "1", " ", "+", "1", " ", "@", "@">>,
       <<"-", "q">>,
       <<"+", "r">> >>
\* Hunk headers that are malformed or name lines the file does not have
MalformedHunks ==
    << <<"d", "i", "f", "f", " ", "-", "-", "g", "i", "t", " ", "a", "/", "f", " ", "b", "/", "f">>,
       <<"-", "-", "-", " ", "a", "/", "f">>,
       <<"+", "+", "+", " ", "b", "/", "f">>,
       <<"@", "@", " ", "-", "x", ",", "1", " ", "+", "1", " ", "@", "@">>,
       <<"+", "z">>,
       <<"@", "@", " ", "-", "9", ",", "2", " ", "+", "7", ",", "3", " ", "@", "@">>,
       <<"-", "a">>,
       <<"+", "b">>,
       <<" ", "c">>,
       <<"@", "@", " ", "-", "0", " ", "+", "0", " ", "@", "@">>,
       <<"+", "y">>,
       <<"@", "@", " ", "-", "1", " ", "+", "1", ",", "2">> >>
\* Lines without a tag inside the hunks: an empty line, as a context line
\* with its blank stripped, and a word
StrayLinesInHunks ==
    << <<"d", "i", "f", "f", " ", "-", "-", "g", "i", "t", " ", "a", "/", "f", " ", "b", "/", "f">>,
       <<"-", "-", "-", " ", "a", "/", "f">>,
       <<"+", "+", "+", " ", "b", "/", "f">>,
       <<"@", "@", " ", "-", "1", ",", "2", " ", "+", "1", ",", "2", " ", "@", "@">>,
       <<" ", "a">>,
       <<>>,
       <<"-", "b">>,
       <<"+", "c">>,
       <<"@", "@", " ", "-", "4", " ", "+", "4", " ", "@", "@">>,
       <<"-", "d">>,
       <<"i", "n", "d", "e", "x">>,
       <<"+", "e">> >>
OddDiffs == {TwoSectionsOfOnePath, HeaderLast, ModeLineLate, MalformedHeader, MalformedHunks,
             StrayLinesInHunks}

\* Any section for f against any f and g on disk: the action of the section,
\* its hunks and the files are chosen independently of one another.
DiskFiles == {<<>>, <<"a", "\n">>, <<"a", "\n", "b">>}
Init ==
    /\ SelectIdle
    /\ CallbackIdle
    /\ FilterIdle
    /\ MergeIdle
    /\ \E state \in {"old", "new"}, f_exists \in BOOLEAN, f_text \in DiskFiles,
          g_exists \in BOOLEAN :
          LET files_on_disk == Both(IF f_exists THEN OnDisk(F, f_text) ELSE EmptyDict,
                                    IF g_exists THEN OnDisk(G, UntouchedFile) ELSE EmptyDict)
          IN
          /\ ~f_exists => f_text = <<>>
          /\ \/ \E action \in {ADDED, MODIFIED, DELETED}, script \in Scripts(MaxDispatch),
                    context \in Contexts, marker \in BOOLEAN :
                    Constructed(state,
                        DiffText(SectionLines(F, action, script, context, marker)),
                        files_on_disk)
             \/ \E lines \in OddDiffs : Constructed(state, DiffText(lines), files_on_disk)
\* The client is asked under the revision names of diff-file mode
DiffFileRevisions == {DiffFileFrom, DiffFileTo}
Next ==
    \/ GetDiff
    \/ \E revision \in DiffFileRevisions, filepath \in Paths :
          GetFileContentAtRevision(revision, filepath)
Spec == Init /\ [][Next]_vars

(***************************************************************************)
(*  commands/select.py, the `select` callback (lines 82-197): it picks the *)
(*  source of the change, creates the client and sets ctx.obj.             *)
(***************************************************************************)
\* --repo-state is a free string (lines 112-116), --from and --to default to
\* "" (lines 85-86), --diff-file to None (lines 96-105)
RepoStateOptions == {"old", "new", "New", "current"}
FromOptions == {<<>>, <<"v", "1">>}
ToOptions == {<<>>, <<"v", "2">>}
DiffFileOptions == {<<>>, <<"c.diff">>}
GitDefaultFrom == <<"m", "a", "i", "n">>
GitDefaultTo == <<"H", "E", "A", "D">>

\* The working tree holds the old or the new side of the example edit;
\* `git diff HEAD` is empty for a tree without uncommitted changes.
Trees == {"old", "new"}
WorkingTree(tree) ==
    Both(OnDisk(F, FileText(IF tree = "old" THEN ExampleOld ELSE ExampleNew)),
         OnDisk(G, UntouchedFile))
get_dirty_diff(files_on_disk) ==
    IF files_on_disk = WorkingTree("new") THEN DiffText(ExampleDiff) ELSE <<>>
DiffFileText == DiffText(ExampleDiff)

SelectCommonOptions(client, from_revision, to_revision) ==
    [vcs_client |-> client, from_revision |-> from_revision,
     to_revision |-> to_revision]

\* The branch of lines 153-185 the options lead to
DiffFileBeforeDirty(p) ==
    IF p.diff_file # <<>> THEN "diff_file"
    ELSE IF p.dirty THEN "dirty"
    ELSE "git"
SourceChosen(p) ==
    IF p.dirty THEN "dirty"
    ELSE IF p.diff_file # <<>> THEN "diff_file"
    ELSE "git"

\* The callback.  DiffFileClient.__init__ (diff_file.py lines 48-53) stores
\* repo_state as given; the text of --diff-file, read on first use by the
\* client, is put into diff_content here.
select ==
    /\ callback_exit = "none"
    /\ LET source == SourceChosen(params) IN
       IF source # "diff_file" /\ ~params.is_git_repo
       THEN /\ callback_exit' = "BadParameter"
            /\ UNCHANGED <<vcs_client, ctx_obj, output_made, repo_state, diff_content>>
       ELSE /\ callback_exit' = "returned"
            /\ output_made' = TRUE
            /\ IF source = "dirty"
               THEN /\ vcs_client' = "DiffFileClient"
                    /\ repo_state' = "new"
                    /\ diff_content' = get_dirty_diff(disk)
                    /\ ctx_obj' = <<SelectCommonOptions("DiffFileClient", DirtyFrom, DirtyTo)>>
               ELSE IF source = "diff_file"
               THEN /\ vcs_client' = "DiffFileClient"
                    /\ repo_state' = params.repo_state
                    /\ diff_content' = DiffFileText
                    /\ ctx_obj' = <<SelectCommonOptions("DiffFileClient", DiffFileFrom,
                                                        DiffFileTo)>>
               ELSE /\ vcs_client' = "GitClient"
                    /\ UNCHANGED <<repo_state, diff_content>>
                    /\ ctx_obj' = <<SelectCommonOptions("GitClient",
                                      IF params.from_revision = <<>> THEN GitDefaultFrom
                                      ELSE params.from_revision,
                                      IF params.to_revision = <<>> THEN GitDefaultTo
                                      ELSE params.to_revision)>>
    /\ UNCHANGED <<disk, _changelist, _file_diffs, call, trace, disk_read, result,
                   parses, raised>>
    /\ UNCHANGED <<params, selectVars, filterVars, mergeVars>>

\* `select` invoked with any options, on a git directory or not; no client
\* exists yet.
CallbackInit ==
    /\ SelectIdle
    /\ FilterIdle
    /\ MergeIdle
    /\ params \in [dirty : BOOLEAN, diff_file : DiffFileOptions,
                    repo_state : RepoStateOptions, from_revision : FromOptions,
                    to_revision : ToOptions, is_git_repo : BOOLEAN]
    /\ vcs_client = "none"
    /\ ctx_obj = <<>>
    /\ callback_exit = "none"
    /\ output_made = FALSE
    /\ \E tree \in Trees : Constructed("old", <<>>, WorkingTree(tree))
\* After the callback the subcommand uses the client
CallbackNext ==
    \/ select
    \/ vcs_client = "DiffFileClient" /\ ClientNext
CallbackSpec == CallbackInit /\ [][CallbackNext]_vars

(***************************************************************************)
(*  commands/utils.py, `utils filter` (lines 315-416)                      *)
(***************************************************************************)
\* str.strip() without argument
Whitespace == {" ", "\t", "\n", "\r", "\f"}
RECURSIVE lstrip(_)
lstrip(s) == IF s # <<>> /\ Head(s) \in Whitespace THEN lstrip(Tail(s)) ELSE s
RECURSIVE rstrip(_)
rstrip(s) ==
    IF s # <<>> /\ s[Len(s)] \in Whitespace THEN rstrip(SubSeq(s, 1, Len(s) - 1)) ELSE s
strip(s) == rstrip(lstrip(s))

\* line.split("!!!"): `current` is the part being read
Separator == <<"!", "!", "!">>
RECURSIVE SplitLoop(_, _, _)
SplitLoop(s, sep, current) ==
    IF s = <<>> THEN <<current>>
    ELSE IF StartsWith(s, sep)
    THEN <<current>> \o SplitLoop(SubSeq(s, Len(sep) + 1, Len(s)), sep, <<>>)
    ELSE SplitLoop(Tail(s), sep, Append(current, Head(s)))
split(s, sep) == SplitLoop(s, sep, <<>>)

\* sep.join(filters)
RECURSIVE JoinWith(_, _)
JoinWith(sep, filters) ==
    IF filters = <<>> THEN <<>>
    ELSE IF Len(filters) = 1 THEN filters[1]
    ELSE filters[1] \o sep \o JoinWith(sep, Tail(filters))

\* fp.readlines(): the lines with their line ends
RECURSIVE ReadLinesLoop(_, _)
ReadLinesLoop(text, current) ==
    IF text = <<>> THEN (IF current = <<>> THEN <<>> ELSE <<current>>)
    ELSE IF Head(text) = "\n"
    THEN <<Append(current, "\n")>> \o ReadLinesLoop(Tail(text), <<>>)
    ELSE ReadLinesLoop(Tail(text), Append(current, Head(text)))
readlines(text) == ReadLinesLoop(text, <<>>)

\* The entry of one line in _convert_gtest_filter, <<>> when it adds none
AtLeastThreeParts(n) == n >= 3
GtestEntry(raw) ==
    LET line == strip(raw)
        parts == split(line, Separator)
    IN
    IF line = <<>> THEN <<>>
    ELSE IF AtLeastThreeParts(Len(parts)) THEN <<parts[2] \o <<".">> \o parts[3]>>
    ELSE IF Len(parts) = 2 THEN <<parts[2] \o <<".", "*">>>>
    ELSE <<>>
RECURSIVE GtestFiltersLastFirst(_)
GtestFiltersLastFirst(lines) ==
    IF lines = <<>> THEN <<>>
    ELSE GtestFiltersLastFirst(Tail(lines)) \o GtestEntry(Head(lines))
RECURSIVE GtestFilters(_)
GtestFilters(lines) ==
    IF lines = <<>> THEN <<>>
    ELSE GtestEntry(Head(lines)) \o GtestFilters(Tail(lines))
_convert_gtest_filter(lines) == JoinWith(<<":">>, GtestFilters(lines))

\* re.match(r"\*!!!([^!]+)!!!\*", line): [^!]+ takes every character up to
\* the next "!", and cannot give any back to make the rest match
WildcardPrefix == <<"*", "!", "!", "!">>
WildcardSuffix == <<"!", "!", "!", "*">>
RECURSIVE NotBangRun(_, _)
NotBangRun(s, i) ==
    IF i > Len(s) \/ s[i] = "!" THEN i - 1
    ELSE NotBangRun(s, i + 1)
NoWildcardMatch == [matched |-> FALSE, group1 |-> <<>>]
WildcardMatch(line) ==
    IF ~StartsWith(line, WildcardPrefix) THEN NoWildcardMatch
    ELSE LET first == Len(WildcardPrefix) + 1
             last == NotBangRun(line, first)
         IN
         IF last < first THEN NoWildcardMatch
         ELSE IF Part(line, last + 1, last + Len(WildcardSuffix)) # WildcardSuffix
         THEN NoWildcardMatch
         ELSE [matched |-> TRUE, group1 |-> SubSeq(line, first, last)]

\* The entry of one line in _convert_ctest_filter, <<>> when it adds none
CtestEntryThirdPart(raw) ==
    LET parts == split(strip(raw), Separator) IN
    IF Len(parts) >= 3 THEN <<parts[3]>> ELSE <<>>
CtestEntry(raw) ==
    LET line == strip(raw)
        match == WildcardMatch(line)
        parts == split(line, Separator)
    IN
    IF line = <<>> THEN <<>>
    ELSE IF match.matched THEN <<match.group1>>
    ELSE IF Len(parts) >= 2 THEN <<parts[2]>>
    ELSE <<>>
RECURSIVE CtestFilters(_)
CtestFilters(lines) ==
    IF lines = <<>> THEN <<>>
    ELSE CtestEntry(Head(lines)) \o CtestFilters(Tail(lines))
_convert_ctest_filter(lines) == JoinWith(<<"|">>, CtestFilters(lines))

\* TestFramework, lines 15-17
GTEST == "gtest"
CTEST == "ctest"
TestFramework == {GTEST, CTEST}

\* The command `filter`: print(result) writes the result and a line end
filter ==
    /\ stdout = <<>>
    /\ LET lines == readlines(input_file) IN
       IF framework = GTEST
       THEN stdout' = <<_convert_gtest_filter(lines) \o <<"\n">>>>
       ELSE IF framework = CTEST
       THEN stdout' = <<_convert_ctest_filter(lines) \o <<"\n">>>>
       ELSE UNCHANGED stdout
    /\ UNCHANGED <<input_file, framework, selectVars, clientVars, callbackVars, mergeVars>>

\* The lines of the files `filter` is run on
MaxLines == 2
SuiteACase1 == <<"m", "o", "d", "!", "!", "!", "S", "u", "i", "t", "e", "A", "!", "!", "!", "C", "a", "s", "e", "1">>
SuiteBCase2 == <<"m", "o", "d", "!", "!", "!", "S", "u", "i", "t", "e", "B", "!", "!", "!", "C", "a", "s", "e", "2">>
SuiteOnly == <<"m", "o", "d", "!", "!", "!", "S", "u", "i", "t", "e", "C">>
Indented == <<" ", "m", "!", "!", "!", "S", "!", "!", "!", "C", " ">>
OnePart == <<"p", "l", "a", "i", "n">>
FourParts == <<"a", "!", "!", "!", "b", "!", "!", "!", "c", "!", "!", "!", "d">>
WildcardTestX == <<"*", "!", "!", "!", "T", "e", "s", "t", "X", "!", "!", "!", "*">>
WildcardTestY == <<"*", "!", "!", "!", "T", "e", "s", "t", "Y", "!", "!", "!", "*">>
Blank == <<>>
SpacesOnly == <<" ", " ">>
\* The line of included.txt written by the retest-all fallback
RetestAll == <<"*">>
InputLines == {SuiteACase1, SuiteBCase2, SuiteOnly, Indented, OnePart, FourParts,
               WildcardTestX, WildcardTestY, Blank, SpacesOnly, RetestAll}
InputLists == UNION {[1..n -> InputLines] : n \in 0..MaxLines}
\* The file: every line ended by a line end, the last one possibly not
InputTexts ==
    {FileText(lines) : lines \in InputLists}
        \cup {JoinWith(<<"\n">>, lines) : lines \in InputLists}

FilterInit ==
    /\ SelectIdle
    /\ ClientIdle
    /\ CallbackIdle
    /\ input_file \in InputTexts
    /\ framework \in TestFramework
    /\ stdout = <<>>
    /\ MergeIdle
FilterNext == filter
FilterSpec == FilterInit /\ [][FilterNext]_vars

(***************************************************************************)
(*                       commands/utils.py: merge                          *)
(***************************************************************************)
\* Lines 67-72: the lines of one exclude file; every identifier is added
RECURSIVE ExcludeLines(_, _)
ExcludeLines(final_excludes, lines) ==
    IF lines = <<>> THEN final_excludes
    ELSE LET test_id == strip(Head(lines)) IN
         ExcludeLines(IF Len(test_id) > 0 THEN final_excludes \cup {test_id}
                      ELSE final_excludes,
                      Tail(lines))
\* Lines 67-72: the loop over exclude_files
RECURSIVE ExcludeLoop(_, _)
ExcludeLoop(final_excludes, file_list) ==
    IF file_list = <<>> THEN final_excludes
    ELSE ExcludeLoop(ExcludeLines(final_excludes, readlines(Head(file_list))), Tail(file_list))

\* The line that selects every test
Star == <<"*">>
\* An included identifier that stays excluded
KeepAll(final_excludes, test_id) == final_excludes
\* final_excludes.remove(test_id)
remove(final_excludes, test_id) == final_excludes \ {test_id}
\* Lines 75-81: the lines of one include file; '*' empties the set and
\* breaks out of the loop over the lines of this file
RECURSIVE IncludeLines(_, _)
IncludeLines(final_excludes, lines) ==
    IF lines = <<>> THEN final_excludes
    ELSE LET test_id == strip(Head(lines)) IN
         IF test_id = Star THEN {}
         ELSE IF Len(test_id) > 0 /\ test_id \in final_excludes
         THEN IncludeLines(remove(final_excludes, test_id), Tail(lines))
         ELSE IncludeLines(final_excludes, Tail(lines))
\* Lines 73-81: the loop over include_files, which goes on after a '*'
RECURSIVE IncludeLoop(_, _)
IncludeLoop(final_excludes, file_list) ==
    IF file_list = <<>> THEN final_excludes
    ELSE IncludeLoop(IncludeLines(final_excludes, readlines(Head(file_list))), Tail(file_list))

\* The orders in which the elements of a set may be iterated
Orders(set) ==
    {order \in [1..Cardinality(set) -> set] :
        \A i, j \in DOMAIN order : i # j => order[i] # order[j]}

\* The command `merge`: the set is written joined by line ends, in the
\* order the set iterates
merge ==
    /\ excluded_txt = <<>>
    /\ LET final_excludes == IncludeLoop(ExcludeLoop({}, exclude_files), include_files) IN
       \E order \in Orders(final_excludes) :
           excluded_txt' = <<JoinWith(<<"\n">>, order)>>
    /\ UNCHANGED <<exclude_files, include_files, selectVars, clientVars, callbackVars,
                   filterVars>>

\* The files `merge` is run on
MaxFiles == 2
EmptyFile == <<>>
FileA == <<"a", "\n">>
FileAB == <<"a", "\n", "b", "\n">>
FilePaddedBC == <<" ", "b", " ", "\n", "\n", "c">>
FileStar == <<"*", "\n">>
FileAStarB == <<"a", "\n", " ", "*", "\n", "b", "\n">>
MergeFiles == {EmptyFile, FileA, FileAB, FilePaddedBC, FileStar, FileAStarB}
FileLists == UNION {[1..n -> MergeFiles] : n \in 0..MaxFiles}

MergeInit ==
    /\ SelectIdle
    /\ ClientIdle
    /\ CallbackIdle
    /\ FilterIdle
    /\ exclude_files \in FileLists
    /\ include_files \in FileLists
    /\ excluded_txt = <<>>
MergeNext == merge
MergeSpec == MergeInit /\ [][MergeNext]_vars

(***************************************************************************)
(*                  Claims about commands/select.py                        *)
(***************************************************************************)
\* The files a run writes when nothing raises.
NormalFiles ==
    [f \in ResultFiles |->
        IF f = INCLUDED_TESTS_FILE
        THEN Written(format_test_list(analysis.included, opts.simple_output))
        ELSE IF f = EXCLUDED_TESTS_FILE
        THEN Written(format_test_list(analysis.excluded, opts.simple_output))
        ELSE Written(json_dump(analysis.causes))]
\* The positions at which the run that was started last has returned (cpp)
\* or the command has returned (syscalls).
RunReturned == pc \in {"rts_end_event", "cpp_loop", "done"} /\ run_order # <<>>
LastDir == run_order[Len(run_order)]
BadExt(ext) == ext \notin {".csv", ".pkl"}

CanStep ==
    CASE pc = "cpp_load" -> ENABLED cpp_load
      [] pc = "cpp_loop" -> ENABLED (_run_rts_start \/ cpp_return)
      [] pc = "rts_build" -> ENABLED _run_rts_build
      [] pc = "rts_select" -> ENABLED _run_rts_select
      [] pc = "rts_write_included" -> ENABLED _run_rts_write_included
      [] pc = "rts_write_excluded" -> ENABLED _run_rts_write_excluded
      [] pc = "rts_write_causes" -> ENABLED _run_rts_write_causes
      [] pc = "rts_except" -> ENABLED _run_rts_except
      [] pc = "rts_end_event" -> ENABLED _run_rts_end
      [] OTHER -> FALSE

C3_LoadErrorsFailFast ==
    (cmd = "cpp" /\ (BadExt(opts.lookup_ext) \/ BadExt(opts.traces_ext))) =>
        /\ pc \in {"cpp_load", "raised"}
        /\ run_order = <<>>
        /\ \A d \in OutputDirs : event_log[d] = <<>> /\ files[d] = NoFiles
\* C3, its case: the lookup file is a .csv, the traces file is a .txt, and
\* the command has raised.
C3_Witness ==
    /\ cmd = "cpp" /\ opts.lookup_ext = ".csv" /\ opts.traces_ext = ".txt"
    /\ pc = "raised"
    /\ \A d \in OutputDirs : event_log[d] = <<>> /\ files[d] = NoFiles

(***************************************************************************)
(*                   Claims about vcs/diff_file.py                         *)
(***************************************************************************)
\* What the diff of the state says, parsed afresh
Parsed == ParseDiff(EmptyDict, splitlines(diff_content))
ActionsOf(path) == {ci.action : ci \in {c \in Parsed.items : c.filepath = path}}
HunksOf(path) ==
    IF path \in DOMAIN Parsed.file_diffs THEN _parse_hunks(Parsed.file_diffs[path]) ELSE <<>>
DiskText(path) == IF path \in DOMAIN disk THEN disk[path] ELSE <<>>
DiskLines(path) == splitlines(DiskText(path))
\* The side a call asks for, and the side the files on disk are
Asked == IF is_new_revision(call.revision) THEN "new" ELSE "old"
CalledOn(path) == call.made /\ PathStr(call.filepath) = path

\* The number of lines before a range of a hunk header, and up to its end
Before(start, count) == IF count = 0 THEN start ELSE start - 1
OldBefore(h) == Before(h.old_start, h.old_count)
OldAfter(h) == OldBefore(h) + h.old_count
NewBefore(h) == Before(h.new_start, h.new_count)
NewAfter(h) == NewBefore(h) + h.new_count
\* The header counts of a hunk equal the numbers of its body lines
CountsMatch(h) ==
    /\ h.old_count = Len(Section(h.lines, "-"))
    /\ h.new_count = Len(Section(h.lines, "+"))
\* The hunks are in file order and do not overlap, on both sides
InOrder(hunks) ==
    \A i \in 1..(Len(hunks) - 1) :
        /\ OldAfter(hunks[i]) <= OldBefore(hunks[i + 1])
        /\ NewAfter(hunks[i]) <= NewBefore(hunks[i + 1])
\* The hunks are a diff of the old lines: each names lines the file has
DiffOfOld(hunks, old) ==
    \A i \in 1..Len(hunks) :
        /\ OldAfter(hunks[i]) <= Len(old)
        /\ SubSeq(old, OldBefore(hunks[i]) + 1, OldAfter(hunks[i]))
              = Section(hunks[i].lines, "-")
DiffToNew(hunks, new) ==
    \A i \in 1..Len(hunks) :
        /\ NewAfter(hunks[i]) <= Len(new)
        /\ SubSeq(new, NewBefore(hunks[i]) + 1, NewAfter(hunks[i]))
              = Section(hunks[i].lines, "+")
WellFormed(hunks) ==
    /\ hunks # <<>>
    /\ InOrder(hunks)
    /\ \A i \in 1..Len(hunks) : CountsMatch(hunks[i])
\* The call applied the hunks of f to the file on disk, forward or in reverse
Applied == CalledOn(F) /\ trace # <<>>
AppliedForward == Applied /\ repo_state = "old"
AppliedReverse == Applied /\ repo_state = "new"
ResultLines == splitlines(result.text)
ForwardAll(lines, hunks) == ForwardLoop(lines, reversed(hunks), <<>>).lines
ReverseAll(lines, hunks) == ReverseLoop(lines, reversed(hunks), <<>>).lines

\* C4: Round trip.  For a MODIFIED file and a diff whose hunks are in file
\* order, do not overlap and have header counts equal to their body lines
\* (counts of 0 included): reverse-applying all hunks to what forward-applying
\* them to the old lines gave returns the old lines, and forward-applying to
\* what reverse-applying to the new lines gave returns the new lines.
C4_RoundTrip ==
    LET hunks == HunksOf(F) IN
    /\ (AppliedForward /\ WellFormed(hunks) /\ DiffOfOld(hunks, DiskLines(F)))
          => ReverseAll(ResultLines, hunks) = DiskLines(F)
    /\ (AppliedReverse /\ WellFormed(hunks) /\ DiffToNew(hunks, DiskLines(F)))
          => ForwardAll(ResultLines, hunks) = DiskLines(F)

\* The reference patch: walking down the file from line pos, the lines
\* between the hunks are copied and the range of each hunk on the side
\* consumed is replaced by its lines of the side produced ("+" produces the
\* new side from the old one, "-" the old side from the new one).
RECURSIVE RefPatch(_, _, _, _)
RefPatch(lines, hunks, produced, pos) ==
    IF hunks = <<>> THEN SubSeq(lines, pos, Len(lines))
    ELSE LET h == Head(hunks)
             before == IF produced = "+" THEN OldBefore(h) ELSE NewBefore(h)
             after == IF produced = "+" THEN OldAfter(h) ELSE NewAfter(h)
         IN  SubSeq(lines, pos, before) \o Section(h.lines, produced)
               \o RefPatch(lines, Tail(hunks), produced, after + 1)
\* What one iteration of the forward loop left: current_lines before the
\* next iteration, or the lines of the result after the last one
LinesAfter(i) == IF i < Len(trace) THEN trace[i + 1].lines ELSE ResultLines
\* Every hunk has lines on the old side (resp. the new side)
OldCountsPositive(hunks) == \A i \in 1..Len(hunks) : hunks[i].old_count >= 1
NewCountsPositive(hunks) == \A i \in 1..Len(hunks) : hunks[i].new_count >= 1
ForwardCase(hunks) ==
    /\ AppliedForward
    /\ WellFormed(hunks)
    /\ OldCountsPositive(hunks)
    /\ DiffOfOld(hunks, DiskLines(F))

\* C5: Forward application against a reference patch.  For old lines and a
\* well-formed diff of them (hunks in file order, not overlapping, every
\* old_count >= 1, header counts matching the body), each hunk replaces old
\* lines [old_start-1, old_start-1+old_count) by its context and '+' lines,
\* the result is the new line sequence, and [A,B,C,D,E] with the hunks
\* '@@ -1,1 +1,1 @@' and '@@ -4,1 +4,1 @@' gives [A2,B,C,D2,E].
C5_ForwardMatchesReference ==
    LET hunks == HunksOf(F) IN
    ForwardCase(hunks) =>
        /\ \A i \in 1..Len(trace) :
              LET h == trace[i].hunk
                  before == trace[i].lines
              IN  LinesAfter(i) = SubSeq(before, 1, h.old_start - 1)
                                    \o Section(h.lines, "+")
                                    \o SubSeq(before, h.old_start + h.old_count, Len(before))
        /\ result.text = join(RefPatch(DiskLines(F), hunks, "+", 1))
        /\ DiffToNew(hunks, ResultLines)
        /\ DiskLines(F) = ExampleOld => ResultLines = ExampleNew
\* The example of the claim has been applied
C5_Witness ==
    /\ ForwardCase(HunksOf(F))
    /\ Len(HunksOf(F)) = 2
    /\ DiskLines(F) = ExampleOld
    /\ ResultLines = ExampleNew

\* The hunks the loop of the call took, in the order it took them
HunksTaken == [i \in 1..Len(trace) |-> trace[i].hunk]
ReverseCase(hunks) ==
    /\ AppliedReverse
    /\ WellFormed(hunks)
    /\ NewCountsPositive(hunks)
    /\ DiffToNew(hunks, DiskLines(F))

CallPath == PathStr(call.filepath)
Reconstructing == call.made /\ Asked # repo_state
\* The lines of one side over all hunks, in order, the tags removed
RECURSIVE SideOfHunks(_, _)
SideOfHunks(hunks, tag) ==
    IF hunks = <<>> THEN <<>>
    ELSE Section(Head(hunks).lines, tag) \o SideOfHunks(Tail(hunks), tag)

\* C7: With repo state 'old', the NEW-side content of a path whose action is
\* MODIFIED is what forward-applying every hunk of the path to the on-disk
\* content gives, for every on-disk content: also for a file that exists but
\* is empty and for a missing file, read as empty content.
C7_ModifiedAppliesToDisk ==
    (Reconstructing /\ repo_state = "old" /\ ActionsOf(CallPath) = {MODIFIED})
       => result.text = join(ForwardAll(DiskLines(CallPath), HunksOf(CallPath)))

\* C8: Boundary.  When the requested side differs from the repo state, the
\* OLD side of a path whose action is ADDED and the NEW side of a path whose
\* action is DELETED are the empty string, whatever the file on disk and the
\* hunks of the path contain.
C8_Boundary ==
    Reconstructing =>
        /\ (Asked = "old" /\ ActionsOf(CallPath) = {ADDED}) => result.text = <<>>
        /\ (Asked = "new" /\ ActionsOf(CallPath) = {DELETED}) => result.text = <<>>
\* The old side of an added path was asked while the file on disk has
\* content and the section has hunks with lines on both sides
C8_Witness ==
    /\ Reconstructing
    /\ Asked = "old"
    /\ ActionsOf(CallPath) = {ADDED}
    /\ DiskText(CallPath) # <<>>
    /\ SideOfHunks(HunksOf(CallPath), "-") # <<>>
    /\ SideOfHunks(HunksOf(CallPath), "+") # <<>>
    /\ result = [returned |-> TRUE, text |-> <<>>]

\* C9: get_file_content_at_revision returns the on-disk content unchanged
\* (the empty string, not an error, when the file is missing) when the
\* requested side equals the repo state, whatever the action of the path,
\* and when the path is not in the changelist, for either side and state.
C9_DiskVerbatim ==
    (call.made /\ (Asked = repo_state \/ ActionsOf(CallPath) = {})) =>
        /\ result.returned
        /\ CallPath \in DOMAIN disk => result.text = disk[CallPath]
        /\ CallPath \notin DOMAIN disk => result.text = <<>>
\* The side on disk of a path the diff modifies was asked, and the file,
\* which ends in a newline, came back as it is
C9_Witness ==
    /\ call.made
    /\ Asked = repo_state
    /\ ActionsOf(CallPath) = {MODIFIED}
    /\ HunksOf(CallPath) # <<>>
    /\ CallPath \in DOMAIN disk
    /\ disk[CallPath] # join(splitlines(disk[CallPath]))
    /\ result.text = disk[CallPath]

\* C10: Reconstruction without disk.  The NEW side of an ADDED path (repo
\* state 'old') is the context and '+' lines of all hunks of its section, in
\* order, without their tag, and the OLD side of a DELETED path (repo state
\* 'new') is the same with '-' lines; the file on disk is not read and no
\* 'No newline at end of file' line contributes.
C10_ReconstructedFromDiff ==
    LET hunks == HunksOf(CallPath) IN
    Reconstructing =>
        /\ (Asked = "new" /\ ActionsOf(CallPath) = {ADDED}) =>
              /\ result.text = join(SideOfHunks(hunks, "+"))
              /\ ~disk_read
              /\ \A i \in 1..Len(ResultLines) :
                    ResultLines[i] \notin {NoNewlineMarker, Tail(NoNewlineMarker)}
        /\ (Asked = "old" /\ ActionsOf(CallPath) = {DELETED}) =>
              /\ result.text = join(SideOfHunks(hunks, "-"))
              /\ ~disk_read
              /\ \A i \in 1..Len(ResultLines) :
                    ResultLines[i] \notin {NoNewlineMarker, Tail(NoNewlineMarker)}
\* An added path whose section has context lines, '+' lines and the marker
\* was rebuilt while the file on disk holds something else
C10_Witness ==
    LET section == splitlines(Parsed.file_diffs[CallPath]) IN
    /\ Reconstructing
    /\ Asked = "new"
    /\ ActionsOf(CallPath) = {ADDED}
    /\ \E i \in 1..Len(section) : section[i] = NoNewlineMarker
    /\ \E i \in 1..Len(section) : Tagged(section[i], " ")
    /\ \E i \in 1..Len(section) : Tagged(section[i], "+") /\ ~Tagged(Untag(section[i]), "+")
    /\ result.text # <<>>
    /\ DiskText(CallPath) \notin {<<>>, result.text}

\* The items of the cached changelist, as a set
CachedItems == {_changelist[1][i] : i \in DOMAIN _changelist[1]}
DiffLines == splitlines(diff_content)

\* C11: Idempotence and caching.  The diff is parsed once: once a changelist
\* is cached no get_diff and no get_file_content_at_revision call changes it
\* or the per-file sections or parses again, and, the disk being unchanged, a
\* call for the path and side of the call before it returns the same string.
C11_ParsedOnceAndCached ==
    [][ /\ parses' <= 1
        /\ _changelist # <<>> =>
              /\ _changelist' = _changelist
              /\ _file_diffs' = _file_diffs
              /\ parses' = parses
        /\ disk' = disk
        /\ (call.made /\ call'.made /\ CallPath' = CallPath /\ Asked' = Asked) =>
              result' = result ]_vars
\* A call was answered from the cached changelist of a diff in which the
\* order of the items matters for the path
C11_Witness ==
    /\ call.made
    /\ call.cached
    /\ parses = 1
    /\ Cardinality({ci \in CachedItems : ci.filepath = CallPath}) = 2
    /\ result.returned
    /\ result.text # <<>>

\* The places where " b/" starts in a line that begins with "diff --git a/"
HeaderSplits(line) ==
    IF ~StartsWith(line, DiffGitAPrefix) THEN {}
    ELSE {k \in (Len(DiffGitAPrefix) + 1)..Len(line) :
             Part(line, k, k + Len(SpaceB) - 1) = SpaceB}
\* The header lines among `lines`, by line number
HeaderLines(lines) == {i \in 1..Len(lines) : HeaderSplits(lines[i]) # {}}
HeaderPaths(line) ==
    {PathStr(SubSeq(line, Len(DiffGitAPrefix) + 1, k - 1)) : k \in HeaderSplits(line)}
\* The action the line after line i stands for
ActionByNextLine(lines, i) ==
    IF i = Len(lines) THEN MODIFIED
    ELSE IF Contains(lines[i + 1], NewFileMode) THEN ADDED
    ELSE IF Contains(lines[i + 1], DeletedFileMode) THEN DELETED
    ELSE MODIFIED
\* The (paths, action) pairs the header lines stand for
HeaderItems(lines) ==
    {[paths |-> HeaderPaths(lines[i]), action |-> ActionByNextLine(lines, i)] :
        i \in HeaderLines(lines)}

\* C12: Action classification.  For every header line 'diff --git a/<path>
\* b/<path2>' get_diff records <path> with ADDED if the line right after the
\* header contains 'new file mode', DELETED if it contains 'deleted file
\* mode' and MODIFIED otherwise, also when the header is the last line; no
\* other line has a say, and nothing else is recorded.
C12_ActionByNextLine ==
    _changelist # <<>> =>
        LET headers == HeaderItems(DiffLines)
            items == CachedItems
        IN
        /\ \A h \in headers :
              \E ci \in items : ci.filepath \in h.paths /\ ci.action = h.action
        /\ \A ci \in items :
              \E h \in headers : ci.filepath \in h.paths /\ ci.action = h.action
\* A diff was parsed whose last line is a header and which has a section
\* with a mode line
C12_Witness ==
    /\ _changelist # <<>>
    /\ Len(DiffLines) \in HeaderLines(DiffLines)
    /\ \E ci \in CachedItems : ci.action = DELETED
    /\ \E ci \in CachedItems : ci.action = MODIFIED

\* C13: Changelist invariant.  For every diff text, also one with more than
\* one section of the same path, the changelist of get_diff never has the
\* same path with two different actions.
C13_OneActionPerPath ==
    _changelist # <<>> =>
        \A c1, c2 \in CachedItems : c1.filepath = c2.filepath => c1.action = c2.action

FileLines == splitlines(input_file)
Identifiers == [i \in 1..Len(FileLines) |-> strip(FileLines[i])]
Printed == stdout # <<>>
\* What was printed, without the line end print adds
Output == SubSeq(stdout[1], 1, Len(stdout[1]) - 1)

\* The places of an identifier where "!!!" stands, its number of parts and
\* its k-th part (no identifier of the input has four "!" in a row)
SeparatorsAt(id) == {i \in 1..Len(id) : Part(id, i, i + 2) = <<"!", "!", "!">>}
PartCount(id) == Cardinality(SeparatorsAt(id)) + 1
NthSeparator(id, k) ==
    CHOOSE i \in SeparatorsAt(id) : Cardinality({j \in SeparatorsAt(id) : j < i}) = k - 1
NthPart(id, k) ==
    SubSeq(id,
           IF k = 1 THEN 1 ELSE NthSeparator(id, k - 1) + 3,
           IF k = PartCount(id) THEN Len(id) ELSE NthSeparator(id, k) - 1)
RECURSIVE Concat(_)
Concat(seqs) == IF seqs = <<>> THEN <<>> ELSE Head(seqs) \o Concat(Tail(seqs))

\* The entry of a two-part or three-part identifier in a GTest filter
SuiteAndCase(id) ==
    IF PartCount(id) = 3 THEN <<NthPart(id, 2) \o <<".">> \o NthPart(id, 3)>>
    ELSE <<NthPart(id, 2) \o <<".", "*">>>>
\* What the conversion makes of an identifier with another number of parts
\* when it is the only line
Alone(id) ==
    IF _convert_gtest_filter(<<id>>) = <<>> THEN <<>>
    ELSE <<_convert_gtest_filter(<<id>>)>>

\* C15: GTest filter conversion.  For every list of lines the filter is the
\* entries of the lines in input order, joined with ':' and with no ':' at
\* either end, where 'module!!!Suite!!!Case' gives 'Suite.Case',
\* 'module!!!Suite' gives 'Suite.*' and a blank line gives nothing.
C15_GtestFilter ==
    (Printed /\ framework = GTEST) =>
        Output = JoinWith(<<":">>,
                    Concat([i \in 1..Len(Identifiers) |->
                               IF Identifiers[i] = <<>> THEN <<>>
                               ELSE IF PartCount(Identifiers[i]) \in {2, 3}
                               THEN SuiteAndCase(Identifiers[i])
                               ELSE Alone(Identifiers[i])]))
\* The example: 'mod!!!SuiteA!!!Case1', 'mod!!!SuiteB!!!Case2' gave
\* 'SuiteA.Case1:SuiteB.Case2'
C15_Witness ==
    /\ Printed
    /\ framework = GTEST
    /\ FileLines = <<SuiteACase1, SuiteBCase2>>
    /\ Output = <<"S", "u", "i", "t", "e", "A", ".", "C", "a", "s", "e", "1", ":",
                  "S", "u", "i", "t", "e", "B", ".", "C", "a", "s", "e", "2">>

\* C16: in GTest filter conversion an identifier whose number of
\* '!!!'-separated parts is neither 2 nor 3 adds no entry to the filter.
C16_MalformedSkipped ==
    (Printed /\ framework = GTEST) =>
        Output = JoinWith(<<":">>,
                    Concat([i \in 1..Len(Identifiers) |->
                               IF Identifiers[i] = <<>> THEN <<>>
                               ELSE IF PartCount(Identifiers[i]) \in {2, 3}
                               THEN SuiteAndCase(Identifiers[i])
                               ELSE <<>>]))

\* id is '*!!!Name!!!*' for a name without "!"
IsWildcard(id) ==
    /\ Len(id) > 8
    /\ SubSeq(id, 1, 4) = <<"*", "!", "!", "!">>
    /\ SubSeq(id, Len(id) - 3, Len(id)) = <<"!", "!", "!", "*">>
    /\ \A i \in 5..(Len(id) - 4) : id[i] # "!"
WildcardName(id) == SubSeq(id, 5, Len(id) - 4)

\* C17: CTest filter conversion.  For every list of lines the filter is the
\* entries of the lines in input order joined with '|', where '*!!!Name!!!*'
\* gives 'Name', any other line with at least two parts gives its second
\* part, and a blank line or a line of one part gives nothing.
C17_CtestFilter ==
    (Printed /\ framework = CTEST) =>
        Output = JoinWith(<<"|">>,
                    Concat([i \in 1..Len(Identifiers) |->
                               IF Identifiers[i] = <<>> THEN <<>>
                               ELSE IF IsWildcard(Identifiers[i])
                               THEN <<WildcardName(Identifiers[i])>>
                               ELSE IF PartCount(Identifiers[i]) >= 2
                               THEN <<NthPart(Identifiers[i], 2)>>
                               ELSE <<>>]))
\* '*!!!TestX!!!*' gave 'TestX', and a line of two parts after it its second
\* part
C17_Witness ==
    /\ Printed
    /\ framework = CTEST
    /\ FileLines = <<WildcardTestX, SuiteOnly>>
    /\ Output = <<"T", "e", "s", "t", "X", "|", "S", "u", "i", "t", "e", "C">>

(***************************************************************************)
(*             Claims about the `select` callback                          *)
(***************************************************************************)
Rejected ==
    /\ callback_exit = "BadParameter"
    /\ vcs_client = "none"
    /\ ctx_obj = <<>>
    /\ ~output_made
Accepted(client, from_revision, to_revision) ==
    /\ callback_exit = "returned"
    /\ vcs_client = client
    /\ ctx_obj = <<[vcs_client |-> client, from_revision |-> from_revision,
                    to_revision |-> to_revision]>>

\* C18: Change-source selection.  The callback picks one source, dirty
\* before diff file before git: with --dirty a diff-backed client with repo
\* state 'new' and revisions ('HEAD', 'dirty') whatever the other options
\* say; with --diff-file and no --dirty revisions ('old', 'new'), --from and
\* --to ignored, no git check; otherwise the git client, --from defaulting
\* to 'main' and --to to 'HEAD' only when empty; dirty mode and git mode on
\* a non-git directory end in BadParameter with no client and no ctx.obj.
C18_SourcePrecedence ==
    callback_exit # "none" =>
        /\ params.dirty =>
              IF params.is_git_repo
              THEN /\ Accepted("DiffFileClient", <<"H", "E", "A", "D">>,
                               <<"d", "i", "r", "t", "y">>)
                   /\ repo_state = "new"
              ELSE Rejected
        /\ (~params.dirty /\ params.diff_file # <<>>) =>
              Accepted("DiffFileClient", <<"o", "l", "d">>, <<"n", "e", "w">>)
        /\ (~params.dirty /\ params.diff_file = <<>>) =>
              IF params.is_git_repo
              THEN Accepted("GitClient",
                       IF params.from_revision = <<>> THEN <<"m", "a", "i", "n">>
                       ELSE params.from_revision,
                       IF params.to_revision = <<>> THEN <<"H", "E", "A", "D">>
                       ELSE params.to_revision)
              ELSE Rejected
\* --dirty was given together with --diff-file, --repo-state old, --from and
\* --to, and the callback returned
C18_Witness ==
    /\ callback_exit = "returned"
    /\ params.dirty
    /\ params.diff_file # <<>>
    /\ params.repo_state = "old"
    /\ params.from_revision # <<>>
    /\ params.to_revision # <<>>
    /\ vcs_client = "DiffFileClient"
    /\ repo_state = "new"

\* C19: RepoState is a two-valued enum.  In every reachable state the
\* diff-backed client's repo_state is 'old' or 'new', whatever value the
\* caller passes with --repo-state.
C19_RepoStateOldOrNew ==
    vcs_client = "DiffFileClient" => repo_state \in {"old", "new"}

\* The contents of the two sides of the path of the call, for the working
\* copy the client was told it has: the side the working copy holds is the
\* file on disk, the other side is computed from the diff.
ItemLists == ListsOf(Parsed.items)
OldSideTexts ==
    IF repo_state = "new"
    THEN {_get_old_file_content(Parsed.file_diffs, disk, CallPath,
                                ItemFound(items, CallPath)).text : items \in ItemLists}
    ELSE {_read_file_from_disk(disk, CallPath).text}
NewSideTexts ==
    IF repo_state = "new"
    THEN {_read_file_from_disk(disk, CallPath).text}
    ELSE {_get_new_file_content(Parsed.file_diffs, disk, CallPath,
                                ItemFound(items, CallPath)).text : items \in ItemLists}

\* C20: Revision classification.  With the revisions of dirty mode (from
\* 'HEAD', to 'dirty') and repo state 'new', the content fetched for the
\* from-revision is the old-side content, reverse-applied from the working
\* tree, and the content fetched for the to-revision is the file on disk;
\* the same assignment holds for the revisions ('old', 'new') of diff-file
\* mode.
C20_FromIsOldToIsNew ==
    (vcs_client = "DiffFileClient" /\ call.made /\ result.returned) =>
        /\ call.revision = ctx_obj[1].from_revision => result.text \in OldSideTexts
        /\ call.revision = ctx_obj[1].to_revision => result.text \in NewSideTexts

(***************************************************************************)
(*        Claims about the sections and hunks of the diff                  *)
(***************************************************************************)
\* The first line after line i that starts with "diff --git", or the line
\* after the last one
NextDiffGit(lines, i) ==
    IF \E j \in (i + 1)..Len(lines) : StartsWith(lines[j], <<"d", "i", "f", "f", " ", "-", "-", "g", "i", "t">>)
    THEN CHOOSE j \in (i + 1)..Len(lines) :
            /\ StartsWith(lines[j], <<"d", "i", "f", "f", " ", "-", "-", "g", "i", "t">>)
            /\ \A k \in (i + 1)..(j - 1) :
                  ~StartsWith(lines[k], <<"d", "i", "f", "f", " ", "-", "-", "g", "i", "t">>)
    ELSE Len(lines) + 1
\* The paths a header line names, as written
WrittenPaths(line) ==
    {SubSeq(line, Len(DiffGitAPrefix) + 1, k - 1) : k \in HeaderSplits(line)}
\* The part of the diff from header line i up to the next "diff --git" line
PartOfHeader(lines, i) == join(SubSeq(lines, i, NextDiffGit(lines, i) - 1))

\* C21: File-section boundaries.  After get_diff the section stored for a
\* path is exactly the lines from a 'diff --git' header of the path up to,
\* and not including, the next line that starts with 'diff --git' (or the
\* end of the diff), also when that line does not match the header pattern;
\* every path with a header has a section, and nothing before the first
\* header or from another file's part is in a section.
C21_SectionBoundaries ==
    _changelist # <<>> =>
        LET lines == DiffLines
            headers == HeaderLines(lines)
        IN
        /\ \A path \in DOMAIN _file_diffs :
              \E i \in headers :
                  /\ path \in WrittenPaths(lines[i])
                  /\ _file_diffs[path] = PartOfHeader(lines, i)
        /\ \A i \in headers : WrittenPaths(lines[i]) \cap DOMAIN _file_diffs # {}

\* The lines of `lines` that are hunk headers, by line number, and the k-th
\* of them
HunkHeaders(lines) == {i \in 1..Len(lines) : hunk_pattern(lines[i]).matched}
NthOf(set, k) == CHOOSE i \in set : Cardinality({j \in set : j < i}) = k - 1
\* The lines right after line i up to the first one that begins with none
\* of '+', '-', space and backslash
HasTag(line) == Len(line) >= 1 /\ line[1] \in {"+", "-", " ", "\\"}
RunAfter(lines, i) ==
    LET stop == IF \E j \in (i + 1)..Len(lines) : ~HasTag(lines[j])
                THEN CHOOSE j \in (i + 1)..Len(lines) :
                        /\ ~HasTag(lines[j])
                        /\ \A k \in (i + 1)..(j - 1) : HasTag(lines[k])
                ELSE Len(lines) + 1
    IN  SubSeq(lines, i + 1, stop - 1)

\* C22: Hunk collection.  The hunks of a section are returned in order of
\* appearance, one per hunk header; a hunk holds the lines after its header
\* up to the first line that begins with none of '+', '-', space and
\* backslash, and no line after that one until the next hunk header; lines
\* before the first hunk header are in no hunk.
C22_HunkCollection ==
    (Applied /\ F \in DOMAIN _file_diffs) =>
        LET lines == splitlines(_file_diffs[F])
            headers == HunkHeaders(lines)
            n == Len(trace)
        IN
        /\ n = Cardinality(headers)
        /\ \A k \in 1..n :
              trace[n + 1 - k].hunk.lines = RunAfter(lines, NthOf(headers, k))

\* The text between two places of a line, and the hunk header the k-th
\* applied hunk was read from
NumberAt(line, from) == SubSeq(line, from, DigitsEnd(line, from))
HeaderOfStep(k) ==
    LET lines == splitlines(_file_diffs[F])
    IN  lines[NthOf(HunkHeaders(lines), Len(trace) + 1 - k)]
\* The count written after the start that begins at `from`, <<>> when it is
\* omitted
WrittenCount(line, from) ==
    LET after == DigitsEnd(line, from) + 1 IN
    IF after <= Len(line) /\ line[after] = "," THEN <<NumberAt(line, after + 1)>> ELSE <<>>
\* Where the old range and the new range begin in a hunk header
OldRangeAt == Len(<<"@", "@", " ", "-">>) + 1
NewRangeAt(line) ==
    CHOOSE i \in 1..Len(line) : line[i] = "+" /\ \A j \in 1..(i - 1) : line[j] # "+"

\* C23: Hunk header counts.  For every hunk header '@@ -a[,b] +c[,d] @@'
\* old_count is 1 exactly when ',b' is omitted and the written number
\* otherwise, and likewise new_count for ',d'; a count written as 0 stays 0.
C23_HeaderCounts ==
    (Applied /\ F \in DOMAIN _file_diffs) =>
        \A k \in 1..Len(trace) :
            LET header == HeaderOfStep(k)
                b == WrittenCount(header, OldRangeAt)
                d == WrittenCount(header, NewRangeAt(header) + 1)
                hunk == trace[k].hunk
            IN
            /\ hunk.old_count = IF b = <<>> THEN 1 ELSE int(b[1])
            /\ hunk.new_count = IF d = <<>> THEN 1 ELSE int(d[1])
            /\ hunk.old_start = int(NumberAt(header, OldRangeAt))
            /\ hunk.new_start = int(NumberAt(header, NewRangeAt(header) + 1))
\* A hunk was applied whose header writes one count as 0 and omits the other
C23_Witness ==
    /\ Applied
    /\ F \in DOMAIN _file_diffs
    /\ \E k \in 1..Len(trace) :
          /\ WrittenCount(HeaderOfStep(k), OldRangeAt) = <<<<"0">>>>
          /\ WrittenCount(HeaderOfStep(k), NewRangeAt(HeaderOfStep(k)) + 1) = <<>>
          /\ trace[k].hunk.old_count = 0
          /\ trace[k].hunk.new_count = 1

\* `added` put directly after line `start` of `lines`
PutAfter(lines, start, added) ==
    SubSeq(lines, 1, start) \o added \o SubSeq(lines, start + 1, Len(lines))

\* C24: Zero-length ranges.  Forward-applying a pure-insertion hunk
\* (old_count = 0) puts the added lines directly after old line old_start,
\* reverse-applying a pure-deletion hunk (new_count = 0) puts the removed
\* lines back directly after new line new_start, and so for a MODIFIED file
\* and a diff of it (one without context lines included) the content
\* returned is the true content of the side asked for.
C24_ZeroLengthRanges ==
    LET hunks == HunksOf(F) IN
    /\ (AppliedForward /\ WellFormed(hunks) /\ DiffOfOld(hunks, DiskLines(F))) =>
          /\ \A i \in 1..Len(trace) :
                trace[i].hunk.old_count = 0 =>
                    LinesAfter(i) = PutAfter(trace[i].lines, trace[i].hunk.old_start,
                                              Section(trace[i].hunk.lines, "+"))
          /\ ResultLines = RefPatch(DiskLines(F), hunks, "+", 1)
    /\ (AppliedReverse /\ WellFormed(hunks) /\ DiffToNew(hunks, DiskLines(F))) =>
          /\ \A i \in 1..Len(trace) :
                trace[i].hunk.new_count = 0 =>
                    LinesAfter(i) = PutAfter(trace[i].lines, trace[i].hunk.new_start,
                                              Section(trace[i].hunk.lines, "-"))
          /\ ResultLines = RefPatch(DiskLines(F), hunks, "-", 1)

\* The filter the framework's converter makes of an empty included list
EmptyListFilter ==
    IF framework = GTEST THEN _convert_gtest_filter(readlines(<<>>))
    ELSE _convert_ctest_filter(readlines(<<>>))

\* C25: the retest-all sentinel survives filter conversion.  When the file
\* is the fail-safe included.txt (the single line '*'), the filter printed,
\* GTest or CTest, differs from the filter made of an empty included list:
\* a run that fell back to retest-all is never turned into the filter of a
\* run that selected no test.
C25_SentinelSurvives ==
    (Printed /\ input_file = FileText(<<RetestAll>>)) => Output # EmptyListFilter

\* The last event of the log of output directory d
LastEvent(d) == event_log[d][Len(event_log[d])]
\* The START event of a run is the last event of d's log
StartIsLast(d) ==
    /\ event_log[d] # <<>>
    /\ LastEvent(d) = IF cmd = "cpp" THEN EventName(RTS_START_EVENT, d)
                      ELSE RTS_START_EVENT \o "_syscall"
\* The END event of the run is the last event of d's log
EndIsLast(d) ==
    /\ event_log[d] # <<>>
    /\ LastEvent(d) = IF cmd = "cpp" THEN EventName(RTS_END_EVENT, d)
                      ELSE RTS_END_EVENT \o "_syscall"

\* C26: event pairing.  Every START_BINARY_RTS_SELECTION event appended to
\* an event log is eventually followed in the same log by the
\* END_BINARY_RTS_SELECTION event of the same run: on the normal path and on
\* the retest-all fallback path, in cpp (per configuration) and in syscalls
\* (also when loading the traces or building the algorithm fails after the
\* START event).
C26_EventPairing == \A d \in OutputDirs : StartIsLast(d) ~> EndIsLast(d)

\* The identifiers of a list of files: the lines, stripped, that are not
\* empty
IdentifiersOf(file_list) ==
    {strip(line) : line \in UNION {{splitlines(file_list[i])[k] :
                                       k \in DOMAIN splitlines(file_list[i])} :
                                   i \in DOMAIN file_list}} \ {<<>>}
\* The identifiers of the file `merge` wrote
MergedSet == IdentifiersOf(excluded_txt)
Merged == excluded_txt # <<>>

\* C27: merge.  For every list of exclude files and include files, the
\* merged excluded set never contains an identifier of an include file and
\* contains only identifiers of exclude files; it is empty whenever an
\* include file has a '*' line, and otherwise it is exactly the union of the
\* exclude files' identifiers minus the union of the include files'.
C27_Merge ==
    Merged =>
        LET excluded == IdentifiersOf(exclude_files)
            included == IdentifiersOf(include_files)
        IN  /\ MergedSet \cap included = {}
            /\ MergedSet \subseteq excluded
            /\ <<"*">> \in included => MergedSet = {}
            /\ <<"*">> \notin included => MergedSet = excluded \ included
\* merge wrote identifiers, after it had removed others, no '*' given
C27_Witness ==
    /\ Merged
    /\ <<"*">> \notin IdentifiersOf(include_files)
    /\ IdentifiersOf(exclude_files) \cap IdentifiersOf(include_files) # {}
    /\ MergedSet # {}

====
